---- MODULE Spec2Model ----
(***************************************************************************)
(* Model of the swipeshelf-backend recommendation core: the genre taxonomy *)
(* matcher (src/utils/genreMatch.ts) and the ranked recommendation         *)
(* pipeline of GET /api/recommendations/fetch/:userId                      *)
(* (src/routes/recommendations.ts), with the store operations that feed    *)
(* its exclusion set (markSeen.ts, shelves.ts).                            *)
(*                                                                         *)
(* A JavaScript string is a sequence of one-character strings; a Set is a  *)
(* TLA+ set; a Map is a sequence of <<key, value>> pairs in insertion      *)
(* order.  A number that the code holds as a decimal fraction is an exact  *)
(* rational <<numerator, denominator>>.                                    *)
(***************************************************************************)
EXTENDS Integers, Sequences, FiniteSets, TLC

----------------------------------------------------------------------------
(* Strings *)

Range(s) == {s[i] : i \in 1..Len(s)}

UpperAlpha == <<"A", "B", "C", "D", "E", "F", "G", "H", "I", "J", "K", "L", "M",
                "N", "O", "P", "Q", "R", "S", "T", "U", "V", "W", "X", "Y", "Z">>
LowerAlpha == <<"a", "b", "c", "d", "e", "f", "g", "h", "i", "j", "k", "l", "m",
                "n", "o", "p", "q", "r", "s", "t", "u", "v", "w", "x", "y", "z">>
Digits == {"0", "1", "2", "3", "4", "5", "6", "7", "8", "9"}

UpperChars == Range(UpperAlpha)
LowerAlnumChars == Range(LowerAlpha) \cup Digits
WordChars == Range(LowerAlpha) \cup Range(UpperAlpha) \cup Digits \cup {"_"}
SpaceChars == {" ", "\t", "\n"}
LowerOf == [c \in UpperChars |->
               LowerAlpha[CHOOSE i \in 1..Len(UpperAlpha) : UpperAlpha[i] = c]]

\* String.prototype.toLowerCase, one character
ToLowerChar(c) == IF c \in UpperChars THEN LowerOf[c] ELSE c

toLowerCase(s) == [i \in 1..Len(s) |-> ToLowerChar(s[i])]

\* the regular-expression classes [a-z0-9], \s and \w
IsLowerAlnum(c) == c \in LowerAlnumChars
IsSpace(c) == c \in SpaceChars
IsWordChar(c) == c \in WordChars

\* String.prototype.trim
RECURSIVE TrimLeft(_)
TrimLeft(s) == IF s # <<>> /\ IsSpace(Head(s)) THEN TrimLeft(Tail(s)) ELSE s
RECURSIVE TrimRight(_)
TrimRight(s) ==
    IF s # <<>> /\ IsSpace(s[Len(s)]) THEN TrimRight(SubSeq(s, 1, Len(s) - 1)) ELSE s
trim(s) == TrimRight(TrimLeft(s))

\* s.replace(/[^a-z0-9]+/g, " "): every maximal run of other characters becomes one space
RECURSIVE ReplaceNonAlnumRuns(_, _)
ReplaceNonAlnumRuns(s, inRun) ==
    IF s = <<>> THEN <<>>
    ELSE IF IsLowerAlnum(Head(s)) THEN <<Head(s)>> \o ReplaceNonAlnumRuns(Tail(s), FALSE)
    ELSE (IF inRun THEN <<>> ELSE <<" ">>) \o ReplaceNonAlnumRuns(Tail(s), TRUE)

\* s.replace(/[^a-z0-9\s]/g, " "): every other character becomes a space
ReplaceNonAlnumChars(s) ==
    [i \in 1..Len(s) |-> IF IsLowerAlnum(s[i]) \/ IsSpace(s[i]) THEN s[i] ELSE " "]

\* s.split(/\s+/): the pieces between runs of whitespace, empty edge pieces included
RECURSIVE SplitWsFrom(_, _, _)
SplitWsFrom(s, cur, inSep) ==
    IF s = <<>> THEN <<cur>>
    ELSE IF IsSpace(Head(s))
         THEN IF inSep THEN SplitWsFrom(Tail(s), cur, TRUE)
              ELSE <<cur>> \o SplitWsFrom(Tail(s), <<>>, TRUE)
         ELSE SplitWsFrom(Tail(s), Append(cur, Head(s)), FALSE)
SplitWs(s) == SplitWsFrom(s, <<>>, FALSE)

MinTokenLen == 3

\* genreMatch.ts tokenizeWords: the token list of a string
tokenizeWords(value) ==
    SelectSeq(SplitWs(trim(ReplaceNonAlnumRuns(toLowerCase(value), FALSE))),
              LAMBDA t : Len(t) >= MinTokenLen)

\* new Set(tokenizeWords(v))
TokenSet(value) == Range(tokenizeWords(value))

\* does the separator /[/,&]|\band\b/i match at position i of s: its length, or 0
SepLenAt(s, i) ==
    IF s[i] \in {"/", ",", "&"} THEN 1
    ELSE IF /\ i + 2 <= Len(s)
            /\ toLowerCase(SubSeq(s, i, i + 2)) = <<"a", "n", "d">>
            /\ (i = 1 \/ ~IsWordChar(s[i - 1]))
            /\ (i + 3 > Len(s) \/ ~IsWordChar(s[i + 3]))
         THEN 3
         ELSE 0

\* genreName.split(/[/,&]|\band\b/i)
RECURSIVE SplitSepFrom(_, _, _)
SplitSepFrom(s, i, cur) ==
    IF i > Len(s) THEN <<cur>>
    ELSE IF SepLenAt(s, i) > 0
         THEN <<cur>> \o SplitSepFrom(s, i + SepLenAt(s, i), <<>>)
         ELSE SplitSepFrom(s, i + 1, Append(cur, s[i]))

\* genreMatch.ts splitGenreParts
splitGenreParts(genreName) ==
    LET pieces == SplitSepFrom(genreName, 1, <<>>)
    IN SelectSeq([i \in 1..Len(pieces) |-> trim(pieces[i])], LAMBDA p : p # <<>>)

\* genreMatch.ts isTokenSubset
isTokenSubset(a, b) == \A t \in a : t \in b

----------------------------------------------------------------------------
(* Maps: sequences of <<key, value>> in insertion order *)

MapHas(m, k) == \E i \in 1..Len(m) : m[i][1] = k
MapGet(m, k) == m[CHOOSE i \in 1..Len(m) : m[i][1] = k][2]
\* Map.prototype.set: a present key keeps its position
MapSet(m, k, v) ==
    IF MapHas(m, k)
    THEN [i \in 1..Len(m) |-> IF m[i][1] = k THEN <<k, v>> ELSE m[i]]
    ELSE Append(m, <<k, v>>)
MapKeys(m) == [i \in 1..Len(m) |-> m[i][1]]
MapValues(m) == [i \in 1..Len(m) |-> m[i][2]]

----------------------------------------------------------------------------
(* Genre Taxonomy Matcher: src/utils/genreMatch.ts *)

\* categories.map((c) => new Set(tokenizeWords(c))).filter((s) => s.size > 0)
categoryTokenSets(categories) ==
    SelectSeq([i \in 1..Len(categories) |-> TokenSet(categories[i])],
              LAMBDA s : s # {})

PartTokenSetsUnfiltered(name) ==
    LET parts == splitGenreParts(name)
    IN [i \in 1..Len(parts) |-> TokenSet(parts[i])]

\* parts.map((p) => new Set(tokenizeWords(p))).filter((s) => s.size > 0)
partTokenSets(name) ==
    SelectSeq(PartTokenSetsUnfiltered(name), LAMBDA s : s # {})

\* partTokenSets.some((genrePartTokens) => isTokenSubset(genrePartTokens, catTokens))
matchesThisCategory(pts, catTokens) ==
    \E i \in 1..Len(pts) : isTokenSubset(pts[i], catTokens)

\* the loop over categoryTokenSets that stops at the first matching category
matchesAnyCategory(name, cts) ==
    LET pts == partTokenSets(name)
    IN \E j \in 1..Len(cts) : matchesThisCategory(pts, cts[j])

\* the loop over genres: the maps matchedById and genreTokensById it leaves
RECURSIVE MatchLoop(_, _, _, _)
MatchLoop(genres, cts, matchedById, genreTokensById) ==
    IF genres = <<>> THEN [matchedById |-> matchedById, genreTokensById |-> genreTokensById]
    ELSE LET g == Head(genres)
             fullTokens == TokenSet(g.name)
         IN IF fullTokens = {}
            THEN MatchLoop(Tail(genres), cts, matchedById, genreTokensById)
            ELSE MatchLoop(Tail(genres), cts,
                           IF matchesAnyCategory(g.name, cts)
                           THEN MapSet(matchedById, g.id, g) ELSE matchedById,
                           MapSet(genreTokensById, g.id, fullTokens))

\* the pruning test with the size comparison off by one (> for >=)
PrunedByLargerOrEqual(a, matchedIds, tokensById) ==
    /\ MapHas(tokensById, a)
    /\ \E j \in 1..Len(matchedIds) :
          LET b == matchedIds[j] IN
          /\ a # b
          /\ MapHas(tokensById, b)
          /\ ~(Cardinality(MapGet(tokensById, a)) > Cardinality(MapGet(tokensById, b)))
          /\ isTokenSubset(MapGet(tokensById, a), MapGet(tokensById, b))

\* the inner pruning loop for a: some other matched b has more tokens and holds all of a's
PrunedByLarger(a, matchedIds, tokensById) ==
    /\ MapHas(tokensById, a)
    /\ \E j \in 1..Len(matchedIds) :
          LET b == matchedIds[j] IN
          /\ a # b
          /\ MapHas(tokensById, b)
          /\ ~(Cardinality(MapGet(tokensById, a)) >= Cardinality(MapGet(tokensById, b)))
          /\ isTokenSubset(MapGet(tokensById, a), MapGet(tokensById, b))

\* the raw match set: Array.from(matchedById.values()) before pruning
RawMatched(categories, genres) ==
    IF Len(categories) = 0 \/ Len(genres) = 0 THEN <<>>
    ELSE MapValues(MatchLoop(genres, categoryTokenSets(categories), <<>>, <<>>).matchedById)

matchGenresFromCategories(categories, genres) ==
    IF Len(categories) = 0 \/ Len(genres) = 0 THEN <<>>
    ELSE LET loop == MatchLoop(genres, categoryTokenSets(categories), <<>>, <<>>)
             matched == MapValues(loop.matchedById)
             matchedIds == [i \in 1..Len(matched) |-> matched[i].id]
             prunedIds == {a \in Range(matchedIds) :
                              ~PrunedByLarger(a, matchedIds, loop.genreTokensById)}
         IN SelectSeq(matched, LAMBDA g : g.id \in prunedIds)

----------------------------------------------------------------------------
(* Numbers: a decimal fraction is the exact rational <<numerator, denominator>> *)

RECURSIVE Gcd(_, _)
Gcd(a, b) == IF b = 0 THEN a ELSE Gcd(b, a % b)

Rat(n, d) == IF n = 0 THEN <<0, 1>> ELSE <<n \div Gcd(n, d), d \div Gcd(n, d)>>
RatAdd(x, y) == Rat(x[1] * y[2] + y[1] * x[2], x[2] * y[2])
RatMul(x, y) == Rat(x[1] * y[1], x[2] * y[2])
RatLess(x, y) == x[1] * y[2] < y[1] * x[2]
RatEq(x, y) == x[1] * y[2] = y[1] * x[2]
Zero == Rat(0, 1)

\* A number of the program is an IEEE-754 double.  Scores are carried as the
\* exact fractions above; where the stored value itself matters, a double near
\* a decimal of hundredths is [c, e]: the value c/100 + e * 2^-56 / 100.
RECURSIVE Pow2Mod(_, _)
Pow2Mod(p, m) == IF p = 0 THEN 1 % m ELSE (2 * Pow2Mod(p - 1, m)) % m
RECURSIVE Pow2(_)
Pow2(p) == IF p = 0 THEN 1 ELSE 2 * Pow2(p - 1)

\* p with 2^-p the spacing of the doubles around c/100 + e units, in [1/16, 2)
BinadeOf(c, e) ==
    IF c > 100 \/ (c = 100 /\ e >= 0) THEN 52
    ELSE IF c > 50 \/ (c = 50 /\ e >= 0) THEN 53
    ELSE IF c > 25 \/ (c = 25 /\ e >= 0) THEN 54
    ELSE IF c >= 13 THEN 55
    ELSE 56

\* round to nearest, ties to even, at spacing 2^-p: the doubles are the
\* multiples of 2^-p, and c/100 lies (c * 2^p mod 100)/100 of a spacing above one
RoundAt(c, e, p) ==
    LET spacing == 100 * Pow2(56 - p)
        r == (c * Pow2Mod(p, 200)) % 200
        above == (r % 100) * Pow2(56 - p)
        t == above + e
        k == IF t >= 0 THEN t \div spacing ELSE -((-t + spacing - 1) \div spacing)
        rest == t - k * spacing
        evenBelow == ((r \div 100) + (IF k >= 0 THEN k ELSE -k)) % 2 = 0
        up == 2 * rest > spacing \/ (2 * rest = spacing /\ ~evenBelow)
    IN [c |-> c, e |-> (IF up THEN k + 1 ELSE k) * spacing - above]

RoundToDouble(c, e) == RoundAt(c, e, BinadeOf(c, e))

\* the double a decimal literal of hundredths denotes
Literal(c) == RoundToDouble(c, 0)
\* x + y in double arithmetic
AddDouble(x, y) == RoundToDouble(x.c + y.c, x.e + y.e)

----------------------------------------------------------------------------
(* Text helpers of src/routes/recommendations.ts *)

\* Array.prototype.join
RECURSIVE Join(_, _)
Join(strs, sep) ==
    IF strs = <<>> THEN <<>>
    ELSE IF Len(strs) = 1 THEN strs[1]
    ELSE strs[1] \o sep \o Join(Tail(strs), sep)

\* String.prototype.includes
Includes(s, sub) ==
    \E i \in 1..(Len(s) - Len(sub) + 1) : SubSeq(s, i, i + Len(sub) - 1) = sub

\* s.split(",")[0]
RECURSIVE FirstCommaPiece(_)
FirstCommaPiece(s) ==
    IF s = <<>> \/ Head(s) = "," THEN <<>> ELSE <<Head(s)>> \o FirstCommaPiece(Tail(s))

\* s.replace(/\s+/g, " ")
RECURSIVE CollapseWs(_, _)
CollapseWs(s, inRun) ==
    IF s = <<>> THEN <<>>
    ELSE IF IsSpace(Head(s))
         THEN (IF inRun THEN <<>> ELSE <<" ">>) \o CollapseWs(Tail(s), TRUE)
         ELSE <<Head(s)>> \o CollapseWs(Tail(s), FALSE)

normalizeKeyPart(value) == CollapseWs(trim(toLowerCase(value)), FALSE)

sUnknownAuthor == <<"u", "n", "k", "n", "o", "w", "n", "-", "a", "u", "t", "h", "o", "r">>
sUnknown == <<"U", "n", "k", "n", "o", "w", "n">>
sAnnotated == <<"a", "n", "n", "o", "t", "a", "t", "e", "d">>
sIllustrated == <<"i", "l", "l", "u", "s", "t", "r", "a", "t", "e", "d">>
sEllipsis == <<" ", ".", ".", ".">>

normalizedCandidateKey(book) ==
    LET title == normalizeKeyPart(book.title)
        author == normalizeKeyPart(FirstCommaPiece(book.authors))
    IN IF title # <<>> /\ author # <<>> THEN title \o <<"|">> \o author
       ELSE IF title # <<>> THEN title \o <<"|">> \o sUnknownAuthor
       ELSE <<"i", "d", "|">> \o book.googleBooksId

WordLimit == 150

\* truncateDescription: at most wordLimit whitespace-separated words
truncateDescription(text, wordLimit) ==
    LET words == SplitWs(text)
    IN IF Len(words) <= wordLimit THEN text
       ELSE Join(SubSeq(words, 1, wordLimit), <<" ">>) \o sEllipsis

\* tokenize: the token set of a text
tokenize(text) ==
    LET pieces == SplitWs(ReplaceNonAlnumChars(toLowerCase(text)))
    IN {trim(pieces[i]) : i \in {j \in 1..Len(pieces) : Len(trim(pieces[j])) >= MinTokenLen}}

\* bookToText: the non-empty fields joined by one space (a shelf book has
\* neither authors nor categories)
bookToText(title, authors, description, categories) ==
    Join(SelectSeq(<<title, authors, description, Join(categories, <<" ">>)>>,
                   LAMBDA p : p # <<>>),
         <<" ">>)
candidateText(c) == bookToText(c.title, c.authors, c.description, c.categories)
shelfBookText(b) == bookToText(b.title, <<>>, b.description, <<>>)

\* the for-loop of jaccardSimilarity and of countIntersection
RECURSIVE CountIn(_, _)
CountIn(a, b) ==
    IF a = {} THEN 0
    ELSE LET x == CHOOSE y \in a : TRUE
         IN (IF x \in b THEN 1 ELSE 0) + CountIn(a \ {x}, b)

\* the intersection over the size of the first set alone
jaccardOverFirst(a, b) ==
    IF Cardinality(a) = 0 \/ Cardinality(b) = 0 THEN Zero
    ELSE Rat(CountIn(a, b), Cardinality(a))

jaccardSimilarity(a, b) ==
    IF Cardinality(a) = 0 \/ Cardinality(b) = 0 THEN Zero
    ELSE LET intersection == CountIn(a, b)
             union == Cardinality(a) + Cardinality(b) - intersection
         IN IF union = 0 THEN Zero ELSE Rat(intersection, union)

\* a loop that takes a later shelf book of equal similarity
RECURSIVE MaxSimLoopOnTie(_, _, _, _, _)
MaxSimLoopOnTie(candidateTokens, shelfTokenSets, i, best, matchedIndex) ==
    IF i > Len(shelfTokenSets) THEN [score |-> best, matchedIndex |-> matchedIndex]
    ELSE IF ~RatLess(jaccardSimilarity(candidateTokens, shelfTokenSets[i]), best)
    THEN MaxSimLoopOnTie(candidateTokens, shelfTokenSets, i + 1,
                         jaccardSimilarity(candidateTokens, shelfTokenSets[i]), i - 1)
    ELSE MaxSimLoopOnTie(candidateTokens, shelfTokenSets, i + 1, best, matchedIndex)

\* the loop of maxSimilarityToShelfDetailed from index i on (0-based matchedIndex)
RECURSIVE MaxSimLoop(_, _, _, _, _)
MaxSimLoop(candidateTokens, shelfTokenSets, i, best, matchedIndex) ==
    IF i > Len(shelfTokenSets) THEN [score |-> best, matchedIndex |-> matchedIndex]
    ELSE LET sim == jaccardSimilarity(candidateTokens, shelfTokenSets[i])
         IN IF RatLess(best, sim)
            THEN MaxSimLoop(candidateTokens, shelfTokenSets, i + 1, sim, i - 1)
            ELSE MaxSimLoop(candidateTokens, shelfTokenSets, i + 1, best, matchedIndex)

maxSimilarityToShelfDetailed(candidateTokens, shelfTokenSets) ==
    MaxSimLoop(candidateTokens, shelfTokenSets, 1, Zero, -1)

countIntersection(a, b) == CountIn(a, b)

\* Array.from(new Set(arr).add(x)): insertion order, no duplicate
SetAdd(arr, x) == IF x \in Range(arr) THEN arr ELSE Append(arr, x)

addSourceGenre(candidate, genreId, genreName) ==
    IF genreId = 0 THEN candidate
    ELSE [candidate EXCEPT
            !.sourceGenreIds = SetAdd(@, genreId),
            !.sourceGenreNames = IF genreName # <<>> THEN SetAdd(@, genreName) ELSE @]

----------------------------------------------------------------------------
(* deriveGenreIdsFromCategories: src/routes/recommendations.ts *)

\* the loop over allGenres: the array matched of {id, tokens}
RECURSIVE DeriveLoop(_, _)
DeriveLoop(allGenres, cts) ==
    IF allGenres = <<>> THEN <<>>
    ELSE LET genre == Head(allGenres)
             fullTokens == TokenSet(genre.name)
             pts == partTokenSets(genre.name)
             matchedAnyCategory ==
                 \E j \in 1..Len(cts) :
                     \E i \in 1..Len(pts) : isTokenSubset(pts[i], cts[j])
         IN IF fullTokens = {} THEN DeriveLoop(Tail(allGenres), cts)
            ELSE (IF matchedAnyCategory THEN <<[id |-> genre.id, tokens |-> fullTokens]>>
                  ELSE <<>>) \o DeriveLoop(Tail(allGenres), cts)

\* prunedIds: the matched ids without those whose tokens are a subset of the
\* tokens of a matched genre with more tokens
prunedIds(matched) ==
    LET matchedIds == [i \in 1..Len(matched) |-> matched[i].id]
        tokensById == [i \in 1..Len(matched) |-> <<matched[i].id, matched[i].tokens>>]
        TokensOf(id) == tokensById[CHOOSE i \in 1..Len(tokensById) :
                            /\ tokensById[i][1] = id
                            /\ \A j \in (i + 1)..Len(tokensById) : tokensById[j][1] # id][2]
    IN {a \in Range(matchedIds) :
           ~\E j \in 1..Len(matchedIds) :
               LET b == matchedIds[j] IN
               /\ a # b
               /\ ~(Cardinality(TokensOf(a)) >= Cardinality(TokensOf(b)))
               /\ isTokenSubset(TokensOf(a), TokensOf(b))}

\* the matched ids as they are, none pruned
deriveUnpruned(categories, allGenres) ==
    IF Len(categories) = 0 THEN {}
    ELSE {DeriveLoop(allGenres, categoryTokenSets(categories))[i].id :
             i \in 1..Len(DeriveLoop(allGenres, categoryTokenSets(categories)))}

deriveGenreIdsFromCategories(categories, allGenres) ==
    IF Len(categories) = 0 THEN {}
    ELSE prunedIds(DeriveLoop(allGenres, categoryTokenSets(categories)))

----------------------------------------------------------------------------
(* Candidate aggregation and scoring: GET /fetch/:userId *)

\* one volume of the metadata source as fetchBooksFromGoogle returns it, given
\* the cover its lookup found (<<>>: none); Null when the volume is dropped
Null == [dropped |-> TRUE]
sCover == <<"c">>

\* a rejected promise
Thrown == [thrown |-> TRUE]

\* `https://covers.openlibrary.org/b/id/${cover_i}-L.jpg`
CoverUrlOf(cover_i) == <<"b", "/", "i", "d", "/", ToString(cover_i), "-", "L">>

\* docs.find((doc) => doc.cover_i): the first doc with a truthy cover_i, 0 when none
RECURSIVE FirstCoverId(_)
FirstCoverId(docs) ==
    IF docs = <<>> THEN 0
    ELSE IF Head(docs).cover_i # 0 THEN Head(docs).cover_i
    ELSE FirstCoverId(Tail(docs))

\* a lookup whose catch block lets the error through
fetchOpenLibraryCoverRethrows(res) ==
    IF res.threw THEN Thrown
    ELSE IF Len(res.docs) = 0 THEN <<>>
    ELSE IF FirstCoverId(res.docs) # 0 THEN CoverUrlOf(FirstCoverId(res.docs))
    ELSE <<>>

\* fetchOpenLibraryCover, given what axios.get did: the URL of the first cover,
\* or null (<<>>) when there is none or the request failed
fetchOpenLibraryCover(res) ==
    IF res.threw THEN <<>>
    ELSE IF Len(res.docs) = 0 THEN <<>>
    ELSE IF FirstCoverId(res.docs) # 0 THEN CoverUrlOf(FirstCoverId(res.docs))
    ELSE <<>>
VolumeToBook(item, coverUrl) ==
    IF coverUrl = <<>> \/ item.description = <<>> THEN Null
    ELSE IF \/ Includes(toLowerCase(item.title), sAnnotated)
            \/ Includes(toLowerCase(item.title), sIllustrated) THEN Null
    ELSE [title |-> item.title,
          authors |-> IF Join(item.authors, <<",", " ">>) = <<>> THEN sUnknown
                      ELSE Join(item.authors, <<",", " ">>),
          coverUrl |-> coverUrl,
          googleBooksId |-> item.id,
          description |-> truncateDescription(item.description, WordLimit),
          averageRating |-> item.averageRating,
          categories |-> item.categories]

\* books.filter(Boolean) over the volumes of one response; covers[i] is the
\* cover found for items[i]
fetchBooksFromGoogle(items, covers) ==
    SelectSeq([i \in 1..Len(items) |-> VolumeToBook(items[i], covers[i])],
              LAMBDA b : b # Null)

\* { ...book, sourceGenreIds, sourceGenreNames }
WithSourceGenres(book, ids, names) ==
    [title |-> book.title, authors |-> book.authors, coverUrl |-> book.coverUrl,
     googleBooksId |-> book.googleBooksId, description |-> book.description,
     averageRating |-> book.averageRating, categories |-> book.categories,
     sourceGenreIds |-> ids, sourceGenreNames |-> names]

\* shouldReplace with a tie on the description length won by the incoming one
shouldReplaceOnTie(existingCandidate, candidate) ==
    \/ RatLess(existingCandidate.averageRating, candidate.averageRating)
    \/ /\ RatEq(candidate.averageRating, existingCandidate.averageRating)
       /\ Len(candidate.description) >= Len(existingCandidate.description)

\* shouldReplace with the longer description winning whatever the ratings
shouldReplaceLonger(existingCandidate, candidate) ==
    \/ RatLess(existingCandidate.averageRating, candidate.averageRating)
    \/ Len(candidate.description) > Len(existingCandidate.description)

\* shouldReplace: the incoming candidate beats the kept one
shouldReplace(existingCandidate, candidate) ==
    \/ RatLess(existingCandidate.averageRating, candidate.averageRating)
    \/ /\ RatEq(candidate.averageRating, existingCandidate.averageRating)
       /\ Len(candidate.description) > Len(existingCandidate.description)

\* the union, in insertion order, of two arrays read as Sets
RECURSIVE SetAddAll(_, _)
SetAddAll(arr, more) ==
    IF more = <<>> THEN arr ELSE SetAddAll(SetAdd(arr, Head(more)), Tail(more))

\* a replacing candidate that comes with its own source genres only
mergeOnCollisionOwnGenres(existingCandidate, candidate) ==
    IF shouldReplace(existingCandidate, candidate) THEN candidate ELSE existingCandidate

\* one iteration of the loop over rawBooks for user genre ug: the next
\* candidateMap and the counters skippedMissingId, skippedExcluded, dedupedCollisions
\* the record stored for the key on a collision: existingCandidate has the
\* incoming source genre already; a replacing candidate takes the merged ones
mergeOnCollision(existingCandidate, candidate) ==
    IF shouldReplace(existingCandidate, candidate)
    THEN [candidate EXCEPT
            !.sourceGenreIds = SetAddAll(existingCandidate.sourceGenreIds, @),
            !.sourceGenreNames = SetAddAll(existingCandidate.sourceGenreNames, @)]
    ELSE existingCandidate

\* candidateMap.set without the lookup of the key
putCandidateUnchecked(map, counters, candidate, key, ug) ==
    [map |-> Append(map, <<key, candidate>>), counters |-> counters]

\* from candidateMap.get(key) on
putCandidate(map, counters, candidate, key, ug) ==
    IF ~MapHas(map, key)
    THEN [map |-> MapSet(map, key, candidate), counters |-> counters]
    ELSE [map |-> MapSet(map, key,
                         mergeOnCollision(addSourceGenre(MapGet(map, key), ug.id, ug.name),
                                          candidate)),
          counters |-> [counters EXCEPT !.dedupedCollisions = @ + 1]]

keyedCandidate(map, counters, candidate, ug) ==
    putCandidate(map, counters, candidate, normalizedCandidateKey(candidate), ug)

\* the body of the loop over rawBooks
ProcessBook(map, counters, book, ug, exclude) ==
    IF book.googleBooksId = <<>>
    THEN [map |-> map, counters |-> [counters EXCEPT !.skippedMissingId = @ + 1]]
    ELSE IF book.googleBooksId \in exclude
    THEN [map |-> map, counters |-> [counters EXCEPT !.skippedExcluded = @ + 1]]
    ELSE keyedCandidate(map, counters,
                        addSourceGenre(WithSourceGenres(book, <<>>, <<>>), ug.id, ug.name),
                        ug)

\* the loop over rawBooks for one user genre
RECURSIVE ProcessBooks(_, _, _, _, _), ProcessRest(_, _, _, _)
ProcessBooks(map, counters, rawBooks, ug, exclude) ==
    IF rawBooks = <<>> THEN [map |-> map, counters |-> counters]
    ELSE ProcessRest(ProcessBook(map, counters, Head(rawBooks), ug, exclude),
                     Tail(rawBooks), ug, exclude)
ProcessRest(one, rawBooks, ug, exclude) ==
    ProcessBooks(one.map, one.counters, rawBooks, ug, exclude)

\* the elements of a set of genre ids in the order of allGenres
IdsInOrder(ids, allGenres) ==
    LET all == [i \in 1..Len(allGenres) |-> allGenres[i].id]
    IN SelectSeq(all, LAMBDA g : g \in ids)

GenreBase == Rat(6, 10)
GenreSpan == Rat(4, 10)
WeightsWithFinished == [genre |-> Rat(35, 100), finished |-> Rat(40, 100), toRead |-> Rat(25, 100)]
WeightsNoFinished == [genre |-> Rat(70, 100), finished |-> Rat(20, 100), toRead |-> Rat(10, 100)]

\* the two triples taken the other way round
chooseWeightsSwapped(finishedLite) ==
    IF Len(finishedLite) > 0 THEN WeightsNoFinished ELSE WeightsWithFinished

\* weights: by whether the finished shelf read by the request has books
chooseWeights(finishedLite) ==
    IF Len(finishedLite) > 0 THEN WeightsWithFinished ELSE WeightsNoFinished

\* effectiveGenreIds as an array: the stored genres of the book when it has
\* any, else the source genres followed by the genres derived from the categories
\* the stored and the inferred genres mixed
effectiveGenreIdsMixed(c, existingGenreIdsByGoogleId, allGenres) ==
    SetAddAll(SetAddAll(c.sourceGenreIds,
                        IdsInOrder(deriveGenreIdsFromCategories(c.categories, allGenres),
                                   allGenres)),
              IdsInOrder(IF MapHas(existingGenreIdsByGoogleId, c.googleBooksId)
                         THEN MapGet(existingGenreIdsByGoogleId, c.googleBooksId) ELSE {},
                         allGenres))

dbGenreIdsOf(googleBooksId, existingGenreIdsByGoogleId) ==
    IF MapHas(existingGenreIdsByGoogleId, googleBooksId)
    THEN MapGet(existingGenreIdsByGoogleId, googleBooksId) ELSE {}

effectiveGenreIds(c, existingGenreIdsByGoogleId, allGenres) ==
    IF Cardinality(dbGenreIdsOf(c.googleBooksId, existingGenreIdsByGoogleId)) > 0
    THEN IdsInOrder(dbGenreIdsOf(c.googleBooksId, existingGenreIdsByGoogleId), allGenres)
    ELSE SetAddAll(c.sourceGenreIds,
                   IdsInOrder(deriveGenreIdsFromCategories(c.categories, allGenres),
                              allGenres))

\* the overlap ratio alone, without base and span
genreScoreIsRatio(totalGenres, genreOverlapRatio) == genreOverlapRatio

genreScoreOf(totalGenres, genreOverlapRatio) ==
    IF totalGenres > 0 THEN RatAdd(GenreBase, RatMul(GenreSpan, genreOverlapRatio)) ELSE Zero

\* the shelf weights taken the other way round
totalScoreSwapped(weights, genreScore, finishedScore, toReadScore) ==
    RatAdd(RatAdd(RatMul(weights.genre, genreScore),
                  RatMul(weights.toRead, finishedScore)),
           RatMul(weights.finished, toReadScore))

totalScoreOf(weights, genreScore, finishedScore, toReadScore) ==
    RatAdd(RatAdd(RatMul(weights.genre, genreScore),
                  RatMul(weights.finished, finishedScore)),
           RatMul(weights.toRead, toReadScore))

genreOverlapRatioOf(totalGenres, matchedGenres) ==
    IF totalGenres > 0 THEN Rat(matchedGenres, totalGenres) ELSE Zero

\* the ScoredCandidate returned, from its parts
scoredOf(c, genreIds, genreOverlapRatio, genreScore, finishedScore, toReadScore, weights) ==
    [candidate |-> c,
     score |-> totalScoreOf(weights, genreScore, finishedScore, toReadScore),
     genreIds |-> genreIds,
     genreScore |-> genreScore,
     genreOverlapRatio |-> genreOverlapRatio,
     finishedScore |-> finishedScore,
     toReadScore |-> toReadScore,
     weights |-> weights]

scoreWith(c, genreIds, totalGenres, genreOverlapRatio, candidateTokens, finishedTokenSets, toReadTokenSets, weights) ==
    scoredOf(c, genreIds, genreOverlapRatio,
             genreScoreOf(totalGenres, genreOverlapRatio),
             maxSimilarityToShelfDetailed(candidateTokens, finishedTokenSets).score,
             maxSimilarityToShelfDetailed(candidateTokens, toReadTokenSets).score,
             weights)

scoreGenres(c, genreIds, preferredGenreIds, finishedTokenSets, toReadTokenSets, weights) ==
    scoreWith(c, genreIds, Cardinality(Range(genreIds)),
              genreOverlapRatioOf(Cardinality(Range(genreIds)),
                                  countIntersection(Range(genreIds), preferredGenreIds)),
              tokenize(candidateText(c)), finishedTokenSets, toReadTokenSets, weights)

\* the body of candidates.map((c) => ...): one ScoredCandidate
scoreCandidate(c, existingGenreIdsByGoogleId, allGenres, preferredGenreIds, finishedTokenSets, toReadTokenSets, weights) ==
    scoreGenres(c, effectiveGenreIds(c, existingGenreIdsByGoogleId, allGenres),
                preferredGenreIds, finishedTokenSets, toReadTokenSets, weights)

\* scored.sort((a, b) => b.score - a.score): stable, highest score first
\* an insertion that puts a record before the records of equal score
RECURSIVE InsertBeforeTies(_, _)
InsertBeforeTies(sorted, r) ==
    IF sorted = <<>> THEN <<r>>
    ELSE IF ~RatLess(r.score, Head(sorted).score) THEN <<r>> \o sorted
    ELSE <<Head(sorted)>> \o InsertBeforeTies(Tail(sorted), r)

RECURSIVE InsertByScore(_, _)
InsertByScore(sorted, r) ==
    IF sorted = <<>> THEN <<r>>
    ELSE IF RatLess(Head(sorted).score, r.score) THEN <<r>> \o sorted
    ELSE <<Head(sorted)>> \o InsertByScore(Tail(sorted), r)
RECURSIVE SortByScore(_)
SortByScore(scoredList) ==
    IF scoredList = <<>> THEN <<>>
    ELSE InsertByScore(SortByScore(SubSeq(scoredList, 1, Len(scoredList) - 1)),
                       scoredList[Len(scoredList)])

TopN == 20
\* scored.slice(0, 20)
topOf(sortedList) ==
    SubSeq(sortedList, 1, IF Len(sortedList) < TopN THEN Len(sortedList) ELSE TopN)

\* numbers.sort((a, b) => a - b) over Array.from(new Set(arr))
RECURSIVE SortAsc(_)
SortAsc(ids) ==
    IF ids = {} THEN <<>>
    ELSE LET lo == CHOOSE i \in ids : \A j \in ids : i <= j
         IN <<lo>> \o SortAsc(ids \ {lo})

\* the response entry of one top candidate
genreNamesOf(sourceGenreIds, allGenres) ==
    LET present == SelectSeq(sourceGenreIds,
                             LAMBDA id : \E i \in 1..Len(allGenres) : allGenres[i].id = id)
    IN [i \in 1..Len(present) |->
           allGenres[CHOOSE k \in 1..Len(allGenres) : allGenres[k].id = present[i]].name]

\* an entry that carries r.genreIds as they are
responseEntryUnsorted(r, allGenres) ==
    WithSourceGenres(r.candidate, r.genreIds, genreNamesOf(r.genreIds, allGenres))

responseEntry(r, allGenres) ==
    WithSourceGenres(r.candidate, SortAsc(Range(r.genreIds)),
                     genreNamesOf(SortAsc(Range(r.genreIds)), allGenres))

\* the stored and the source genres alone, without those derived
genreIdsToPersistUnderived(r, existingGenreIdsByGoogleId, allGenres) ==
    dbGenreIdsOf(r.candidate.googleBooksId, existingGenreIdsByGoogleId)
        \cup Range(r.candidate.sourceGenreIds)

\* genreIdsToPersist of one top candidate
genreIdsToPersist(r, existingGenreIdsByGoogleId, allGenres) ==
    dbGenreIdsOf(r.candidate.googleBooksId, existingGenreIdsByGoogleId)
        \cup Range(r.candidate.sourceGenreIds)
        \cup deriveGenreIdsFromCategories(r.candidate.categories, allGenres)


----------------------------------------------------------------------------
(* Inputs of the matcher *)

sFiction == <<"F", "i", "c", "t", "i", "o", "n">>
sScienceFiction == <<"S", "c", "i", "e", "n", "c", "e", " ", "F", "i", "c", "t", "i", "o", "n">>
sFictionScience == <<"F", "i", "c", "t", "i", "o", "n", ",", " ", "S", "c", "i", "e", "n", "c", "e">>
sArtsCrafts == <<"A", "r", "t", "s", " ", "&", " ", "C", "r", "a", "f", "t", "s">>
sYAArts == <<"Y", "A", "/", "A", "r", "t", "s">>
sCraftsAndArts == <<"C", "r", "a", "f", "t", "s", " ", "a", "n", "d", " ", "A", "r", "t", "s">>
sSandy == <<"S", "a", "n", "d", "y">>
sYA == <<"Y", "A">>
cFICTION == <<"F", "I", "C", "T", "I", "O", "N">>
cSciFi == <<"S", "c", "i", "-", "F", "i">>
cArtsAndCrafts == <<"a", "r", "t", "s", " ", " ", "a", "n", "d", " ", "c", "r", "a", "f", "t", "s">>
cSandyArts == <<"S", "a", "n", "d", "y", " ", "A", "r", "t", "s">>

\* the genre table: Genre.id is the primary key, Genre.name is unique
GenreTable == <<sFiction, sScienceFiction, sFictionScience, sArtsCrafts,
                sYAArts, sCraftsAndArts, sSandy, sYA>>
GenreRow(id) == [id |-> id, name |-> GenreTable[id]]

CategoryPool == {sScienceFiction, cFICTION, cSciFi, cArtsAndCrafts, cSandyArts, sYA}

MaxGenres == 3
MaxCategories == 2

\* the rows of a set of genre ids, in id order
RECURSIVE RowsOf(_)
RowsOf(ids) ==
    IF ids = {} THEN <<>>
    ELSE LET lo == CHOOSE i \in ids : \A j \in ids : i <= j
         IN <<GenreRow(lo)>> \o RowsOf(ids \ {lo})

Taxonomies == {RowsOf(ids) : ids \in {s \in SUBSET (1..Len(GenreTable)) : Cardinality(s) <= MaxGenres}}

SeqsUpTo(S, n) == UNION {[1..k -> S] : k \in 0..n}

----------------------------------------------------------------------------
(* Inputs of the pipeline: volumes of the metadata source, shelf rows *)

tDune == <<"D", "u", "n", "e">>
tDuneUpper == <<" ", "D", "U", "N", "E">>
tEmma == <<"E", "m", "m", "a">>
tDuneIllustrated == <<"D", "u", "n", "e", " ", "I", "l", "l", "u", "s", "t", "r", "a", "t", "e", "d">>
tSandworm == <<"S", "a", "n", "d", "w", "o", "r", "m">>
aHerbert == <<"F", "r", "a", "n", "k", " ", "H", "e", "r", "b", "e", "r", "t">>
aHerbertLoose == <<"f", "r", "a", "n", "k", " ", " ", "h", "e", "r", "b", "e", "r", "t">>
aBob == <<"B", "o", "b">>
aBlank == <<" ">>
dSand == <<"s", "a", "n", "d">>
dWorm == <<"w", "o", "r", "m">>
dSandworm == <<"s", "a", "n", "d", " ", "w", "o", "r", "m">>
dEmma == <<"e", "m", "m", "a">>
dArts == <<"a", "r", "t", "s">>
dDuneHerbert == <<"d", "u", "n", "e", " ", "h", "e", "r", "b", "e", "r", "t">>
idV1 == <<"v", "1">>
idV2 == <<"v", "2">>
idV3 == <<"v", "3">>
idV4 == <<"v", "4">>
idV5 == <<"v", "5">>
idV6 == <<"v", "6">>
idV8 == <<"v", "8">>
idV9 == <<"v", "9">>
idE1 == <<"e", "1">>
idW1 == <<"w", "1">>

Volume(id, title, authors, description, averageRating, categories) ==
    [id |-> id, title |-> title, authors |-> authors, description |-> description,
     averageRating |-> averageRating, categories |-> categories]

\* four volumes of one book (same canonical key): rating 3.5; rating 4.0; a
\* full tie with the first; same rating with a longer description
vDune1 == Volume(idV1, tDune, <<aHerbert>>, dSand, Rat(7, 2), <<sScienceFiction>>)
vDune2 == Volume(idV2, tDuneUpper, <<aHerbertLoose, aBob>>, dSand, Rat(4, 1), <<cFICTION>>)
vDune3 == Volume(idV3, tDune, <<aHerbert>>, dWorm, Rat(7, 2), <<>>)
vDune4 == Volume(idV4, tDune, <<aHerbert>>, dSandworm, Rat(7, 2), <<cSciFi>>)
\* no title, no authors, no rating, no categories
vAnon == Volume(idV5, <<>>, <<>>, dEmma, Zero, <<>>)
\* a blank author
vEmma == Volume(idV6, tEmma, <<aBlank>>, dArts, Rat(4, 1), <<cArtsAndCrafts>>)
\* no id
vNoId == Volume(<<>>, tEmma, <<>>, dEmma, Zero, <<>>)
\* dropped by fetchBooksFromGoogle: an illustrated edition, a missing description
vIllustrated == Volume(idV8, tDuneIllustrated, <<aHerbert>>, dSand, Rat(4, 1), <<>>)
vNoDescription == Volume(idV9, tSandworm, <<aBob>>, <<>>, Rat(4, 1), <<>>)

Catalogue == {vDune1, vDune2, vAnon, vEmma, vNoId, vIllustrated, vNoDescription}
SmallCatalogue == {vDune1, vAnon}
\* the volumes of one book, and one of another
Collisions == {vDune1, vDune2, vDune3, vDune4, vAnon}

\* a book as a client sends it, and as a shelf reader returns it
ShelfRow(id, title, description) ==
    [googleBooksId |-> id, title |-> title, description |-> description]
\* a ShelfBook row with the googleBooksId of its Book
ShelfBookRow(shelf, b) ==
    [shelf |-> shelf, googleBooksId |-> b.googleBooksId, title |-> b.title,
     description |-> b.description]
rowEmma == ShelfRow(idE1, tEmma, <<>>)
rowDune == ShelfRow(idV1, tDune, dSand)
rowSandworm == ShelfRow(idW1, tSandworm, dDuneHerbert)

AllGenreRows == [i \in 1..Len(GenreTable) |-> GenreRow(i)]

MaxFetch == 2
MaxPreferred == 2
PreferredPool == {1, 2}


----------------------------------------------------------------------------
(* State *)

VARIABLES
    \* one call of matchGenresFromCategories
    mPc,          \* "off", "input" before the call, "done" after it
    mCategories,  \* the categories argument
    mGenres,      \* the genres argument
    mMatched,     \* the raw match set (matched, before pruning)
    mResult,      \* the returned genres
    \* the canonical store, for the one user of the model
    upstream,       \* the volumes the metadata source can return
    userGenreRows,  \* UserGenre: the preferred genre ids, in row order
    shelfBooks,     \* ShelfBook: the rows of the user's shelves, most recently added first
    userBooks,      \* UserBook: the googleBooksIds marked seen
    bookIds,        \* Book: the googleBooksIds that have a row
    bookGenres,     \* BookGenre: <<googleBooksId, genreId>>
    \* one request GET /fetch/:userId
    pc,             \* "idle", "genres", "shelves", "seen", "fetch", "score", "persist", "sent"
    userId,
    userGenres,
    pendingReads,   \* which of the two shelf reads of Promise.all are outstanding
    toReadLite,
    finishedLite,
    seen,
    excludeGoogleIds,
    weights,
    candidateMap,
    counters,       \* fetchedTotal, skippedExcluded, skippedMissingId, dedupedCollisions
    genreIdx,       \* position of the loop over userGenres
    existingGenreIdsByGoogleId,
    scored,         \* the scored candidates, sorted
    persistIdx,     \* position of the loop over top
    status,         \* HTTP status of the response, 0 while none is sent
    body,           \* the response sent
    \* the loop over rawBooks alone
    mgInputs,       \* the raw candidates to process, each with the user genre of its query
    mgStep,         \* how many of them have been processed
    mgPrev,         \* candidateMap before the last one was processed
    \* one call of jaccardSimilarity, and the call with the arguments exchanged
    simPc,          \* "off", "input" before the calls, "done" after them
    simA,
    simB,
    simScore,       \* jaccardSimilarity(simA, simB)
    simBack,        \* jaccardSimilarity(simB, simA)
    \* the ranked selection alone: scored.sort and slice on a list of scored candidates
    selPc,          \* "off", "input" before the sort, "done" after the slice
    selInput,       \* the scored candidates in aggregator order
    selTop,         \* top
    \* the limiters of the process: limit of recommendations.ts, limit and
    \* googleVolumeLimit of search.ts
    activeCount,    \* per limiter, the lookups it has started and that have not settled
    pendingCount,   \* per limiter, the lookups that wait in its queue
    \* one call of fetchBooksFromGoogle of recommendations.ts
    fbPc,           \* "off", "input" before the call, "done" after it
    fbItems,        \* res.data.items
    fbResponses,    \* per item, what the cover source answers to its lookup
    fbResult,       \* the books returned, or Thrown
    \* one iteration of the persistence loop on the tables Book and BookGenre,
    \* and the same iteration once more
    psPc,           \* "off", "input", "once" after the iteration, "twice" after the second
    psBooks,        \* Book: rows (id, googleBooksId), in insertion order
    psBookGenres,   \* BookGenre: rows (bookId, genreId), in insertion order
    psGoogleBooksId,  \* r.candidate.googleBooksId
    psToPersist,    \* genreIdsToPersist
    psBefore,       \* the two tables before the iteration
    psOnce,         \* the two tables after the first iteration
    \* one request GET /search of search.ts
    srPc,           \* "off", "idle", "genres", "fetch", "overlay", "sent"
    srQuery,        \* query
    srGenres,       \* genres
    srFiltered,     \* filteredBooks of fetchBooksFromGoogle
    srBooks,        \* books
    srStatus,       \* HTTP status of the response, 0 while none is sent
    srBody,         \* the response sent
    \* one request GET /fetch/:userId of the round-robin version of recommendations.ts
    rrPc,           \* "off", "idle", "pools", "loop", "sent"
    rrUserGenres,   \* userGenres: the ids of the preferred genres, in row order
    rrPoolIdx,      \* position of the loop over userGenres
    genreBookPool,  \* genre id -> the books left in the pool of the genre
    rrGenreIds,     \* genreIds: the genres in the rotation
    genreIndex,
    finalRecommendations,
    rrStatus,       \* HTTP status of the response, 0 while none is sent
    rrBody,         \* the response sent
    rrPools,        \* genreBookPool as it was when the selection started
    rrStart,        \* genreIndex as it was drawn
    rrPickedFrom,   \* per book of finalRecommendations, the genre of the pool it was taken from
    \* the requests of shelves.ts that have passed their check and not yet written
    inflight,
    \* one call of maxSimilarityToShelfDetailed
    msPc,           \* "off", "input" before the call, "done" after it
    msCandidateTokens,
    msShelfTokenSets,
    msDetail,       \* the SimilarityDetail returned
    \* one call of deriveGenreIdsFromCategories of recommendations.ts and one
    \* of matchGenresFromCategories of genreMatch.ts on the same arguments
    dvPc,           \* "off", "input" before the calls, "done" after them
    dvCategories,
    dvGenres,
    dvDerived,      \* the Set deriveGenreIdsFromCategories returns
    dvMatched,      \* the genres matchGenresFromCategories returns
    \* what the request before the current one read and computed
    previous

matchVars == <<mPc, mCategories, mGenres, mMatched, mResult>>
storeVars == <<upstream, userGenreRows, shelfBooks, userBooks, bookIds, bookGenres>>
fetchVars == <<candidateMap, counters, genreIdx>>
readVars == <<userGenres, pendingReads, toReadLite, finishedLite, seen, excludeGoogleIds, weights>>
scoreVars == <<existingGenreIdsByGoogleId, scored, persistIdx>>
reqVars == <<pc, userId, readVars, fetchVars, scoreVars, status, body>>
mergeVars == <<mgInputs, mgStep, mgPrev>>
simVars == <<simPc, simA, simB, simScore, simBack>>
selVars == <<selPc, selInput, selTop>>
limVars == <<activeCount, pendingCount>>
fbVars == <<fbPc, fbItems, fbResponses, fbResult>>
psVars == <<psPc, psBooks, psBookGenres, psGoogleBooksId, psToPersist, psBefore, psOnce>>
srVars == <<srPc, srQuery, srGenres, srFiltered, srBooks, srStatus, srBody>>
rrVars == <<rrPc, rrUserGenres, rrPoolIdx, genreBookPool, rrGenreIds, genreIndex,
           finalRecommendations, rrStatus, rrBody, rrPools, rrStart, rrPickedFrom>>
shVars == <<inflight>>
msVars == <<msPc, msCandidateTokens, msShelfTokenSets, msDetail>>
dvVars == <<dvPc, dvCategories, dvGenres, dvDerived, dvMatched>>
twVars == <<previous>>
sideVars == <<simVars, selVars, limVars, fbVars, psVars, srVars, rrVars, shVars, msVars,
              dvVars, twVars>>
vars == <<matchVars, storeVars, reqVars, mergeVars, sideVars>>

ShelfNames == {"To Read", "Finished", "Favorites"}
NoCounters == [fetchedTotal |-> 0, skippedExcluded |-> 0, skippedMissingId |-> 0,
               dedupedCollisions |-> 0]
NoBody == [kind |-> "none"]

\* the matcher is not running
MatchOff ==
    /\ mPc = "off"
    /\ mCategories = <<>>
    /\ mGenres = <<>>
    /\ mMatched = <<>>
    /\ mResult = <<>>

\* the locals of a request before it has read anything
FreshLocals ==
    /\ userGenres' = <<>>
    /\ pendingReads' = {}
    /\ toReadLite' = <<>>
    /\ finishedLite' = <<>>
    /\ seen' = {}
    /\ excludeGoogleIds' = {}
    /\ weights' = WeightsNoFinished
    /\ candidateMap' = <<>>
    /\ counters' = NoCounters
    /\ genreIdx' = 0
    /\ existingGenreIdsByGoogleId' = <<>>
    /\ scored' = <<>>
    /\ persistIdx' = 0

NoRequest ==
    /\ pc = "idle"
    /\ userId = 0
    /\ userGenres = <<>>
    /\ pendingReads = {}
    /\ toReadLite = <<>>
    /\ finishedLite = <<>>
    /\ seen = {}
    /\ excludeGoogleIds = {}
    /\ weights = WeightsNoFinished
    /\ candidateMap = <<>>
    /\ counters = NoCounters
    /\ genreIdx = 0
    /\ existingGenreIdsByGoogleId = <<>>
    /\ scored = <<>>
    /\ persistIdx = 0
    /\ status = 0
    /\ body = NoBody

\* the loop over rawBooks is not run on its own
MergeOff ==
    /\ mgInputs = <<>>
    /\ mgStep = 0
    /\ mgPrev = <<>>

\* jaccardSimilarity is not called on its own
SimOff ==
    /\ simPc = "off"
    /\ simA = {}
    /\ simB = {}
    /\ simScore = Zero
    /\ simBack = Zero

\* the ranked selection is not run on its own
SelOff ==
    /\ selPc = "off"
    /\ selInput = <<>>
    /\ selTop = <<>>

Limiters == {"recommendations.limit", "search.limit", "search.googleVolumeLimit"}

\* no lookup is in flight or waiting
LimitersIdle ==
    /\ activeCount = [l \in Limiters |-> 0]
    /\ pendingCount = [l \in Limiters |-> 0]

\* fetchBooksFromGoogle is not called on its own
FetchOff ==
    /\ fbPc = "off"
    /\ fbItems = <<>>
    /\ fbResponses = <<>>
    /\ fbResult = <<>>

NoTables == [books |-> <<>>, bookGenres |-> <<>>]

\* the persistence loop is not run on its own
PersistOff ==
    /\ psPc = "off"
    /\ psBooks = <<>>
    /\ psBookGenres = <<>>
    /\ psGoogleBooksId = <<>>
    /\ psToPersist = {}
    /\ psBefore = NoTables
    /\ psOnce = NoTables

\* no search request
SearchOff ==
    /\ srPc = "off"
    /\ srQuery = <<>>
    /\ srGenres = <<>>
    /\ srFiltered = <<>>
    /\ srBooks = <<>>
    /\ srStatus = 0
    /\ srBody = NoBody

\* no round-robin request
RoundRobinOff ==
    /\ rrPc = "off"
    /\ rrUserGenres = <<>>
    /\ rrPoolIdx = 0
    /\ genreBookPool = <<>>
    /\ rrGenreIds = <<>>
    /\ genreIndex = 0
    /\ finalRecommendations = <<>>
    /\ rrStatus = 0
    /\ rrBody = NoBody
    /\ rrPools = <<>>
    /\ rrStart = 0
    /\ rrPickedFrom = <<>>

\* no shelf request is between its check and its write
ShelvesOff == inflight = {}

\* maxSimilarityToShelfDetailed is not called on its own
MaxSimOff ==
    /\ msPc = "off"
    /\ msCandidateTokens = {}
    /\ msShelfTokenSets = <<>>
    /\ msDetail = [score |-> Zero, matchedIndex |-> -1]

\* deriveGenreIdsFromCategories is not called on its own
DeriveOff ==
    /\ dvPc = "off"
    /\ dvCategories = <<>>
    /\ dvGenres = <<>>
    /\ dvDerived = {}
    /\ dvMatched = <<>>

NoRecord == [kind |-> "none"]
\* no request has been answered before the current one
NoPrevious == previous = NoRecord

SideOff ==
    /\ SimOff /\ SelOff /\ LimitersIdle /\ FetchOff /\ PersistOff /\ SearchOff
    /\ RoundRobinOff /\ ShelvesOff /\ MaxSimOff /\ DeriveOff /\ NoPrevious

EmptyStore ==
    /\ upstream = {}
    /\ userGenreRows = <<>>
    /\ shelfBooks = <<>>
    /\ userBooks = {}
    /\ bookIds = {}
    /\ bookGenres = {}

----------------------------------------------------------------------------
(* The matcher alone *)

InitMatch ==
    /\ SideOff
    /\ mPc = "input"
    /\ mCategories \in SeqsUpTo(CategoryPool, MaxCategories)
    /\ mGenres \in Taxonomies
    /\ mMatched = <<>>
    /\ mResult = <<>>
    /\ EmptyStore
    /\ NoRequest
    /\ MergeOff

\* one call of matchGenresFromCategories
MatchGenres ==
    /\ mPc = "input"
    /\ mPc' = "done"
    /\ mMatched' = RawMatched(mCategories, mGenres)
    /\ mResult' = matchGenresFromCategories(mCategories, mGenres)
    /\ UNCHANGED <<mCategories, mGenres, storeVars, reqVars, mergeVars, sideVars>>

NextMatch == MatchGenres

SpecMatch == InitMatch /\ [][NextMatch]_vars

----------------------------------------------------------------------------
(* GET /api/recommendations/fetch/:userId, one action per resumption *)

NaN == -1
DigitValue(c) == CHOOSE n \in 0..9 : ToString(n) = c
\* parseInt: the value of the leading decimal digits, NaN when there are none
RECURSIVE ParseDigits(_, _)
ParseDigits(s, acc) ==
    IF s = <<>> \/ Head(s) \notin Digits THEN acc
    ELSE ParseDigits(Tail(s), 10 * acc + DigitValue(Head(s)))
parseInt(s) ==
    LET t == TrimLeft(s)
    IN IF t = <<>> \/ Head(t) \notin Digits THEN NaN ELSE ParseDigits(t, 0)

UserIdParams == {<<"1">>, <<"0">>, <<"m", "e">>, <<"1", "x">>, <<" ">>}

\* getToReadBooks / getFinishedBooks followed by the map to ShelfBookLite and
\* the filter on googleBooksId
shelfOf(rows, name) == SelectSeq(rows, LAMBDA r : r.shelf = name)
shelfLite(name) ==
    SelectSeq([i \in 1..Len(shelfOf(shelfBooks, name)) |->
                  ShelfRow(shelfOf(shelfBooks, name)[i].googleBooksId,
                           shelfOf(shelfBooks, name)[i].title,
                           shelfOf(shelfBooks, name)[i].description)],
              LAMBDA b : b.googleBooksId # <<>>)

LiteIds(lite) == {lite[i].googleBooksId : i \in 1..Len(lite)}
shelfTokenSets(lite) == [i \in 1..Len(lite) |-> tokenize(shelfBookText(lite[i]))]

candidatesOf(map) == MapValues(map)

\* a check that refuses NaN only
ArriveChecksNaNOnly ==
    /\ \E param \in UserIdParams :
          /\ userId' = parseInt(param)
          /\ IF parseInt(param) = NaN
             THEN /\ pc' = "sent"
                  /\ status' = 400
                  /\ body' = [kind |-> "error", error |-> "Invalid userId"]
             ELSE /\ pc' = "genres"
                  /\ status' = 0
                  /\ body' = NoBody
    /\ FreshLocals
    /\ UNCHANGED <<matchVars, mergeVars, sideVars, storeVars>>

\* the request arrives: the user id is parsed and checked
Arrive ==
    /\ \E param \in UserIdParams :
          /\ userId' = parseInt(param)
          /\ IF parseInt(param) = NaN \/ parseInt(param) = 0
             THEN /\ pc' = "sent"
                  /\ status' = 400
                  /\ body' = [kind |-> "error", error |-> "Invalid userId"]
             ELSE /\ pc' = "genres"
                  /\ status' = 0
                  /\ body' = NoBody
    /\ FreshLocals
    /\ UNCHANGED <<matchVars, mergeVars, sideVars, storeVars>>

\* the first request of the user
Start ==
    /\ pc = "idle"
    /\ Arrive

\* a later request, after the response to the one before
StartAgain ==
    /\ pc = "sent"
    /\ Arrive

\* prisma.userGenre.findMany returns
ReadUserGenres ==
    /\ pc = "genres"
    /\ userGenres' = [i \in 1..Len(userGenreRows) |-> GenreRow(userGenreRows[i])]
    /\ IF Len(userGenreRows) = 0
       THEN /\ pc' = "sent"
            /\ status' = 200
            /\ body' = [kind |-> "message", message |-> "User has no selected genres"]
            /\ pendingReads' = {}
       ELSE /\ pc' = "shelves"
            /\ pendingReads' = {"toRead", "finished"}
            /\ UNCHANGED <<status, body>>
    /\ UNCHANGED <<matchVars, mergeVars, sideVars, storeVars, userId, toReadLite, finishedLite, seen,
                   excludeGoogleIds, weights, fetchVars, scoreVars>>

\* getToReadBooks returns
ReadToRead ==
    /\ pc = "shelves"
    /\ "toRead" \in pendingReads
    /\ toReadLite' = shelfLite("To Read")
    /\ pendingReads' = pendingReads \ {"toRead"}
    /\ pc' = IF pendingReads' = {} THEN "seen" ELSE "shelves"
    /\ UNCHANGED <<matchVars, mergeVars, sideVars, storeVars, userId, userGenres, finishedLite, seen,
                   excludeGoogleIds, weights, fetchVars, scoreVars, status, body>>

\* getFinishedBooks returns
ReadFinished ==
    /\ pc = "shelves"
    /\ "finished" \in pendingReads
    /\ finishedLite' = shelfLite("Finished")
    /\ pendingReads' = pendingReads \ {"finished"}
    /\ pc' = IF pendingReads' = {} THEN "seen" ELSE "shelves"
    /\ UNCHANGED <<matchVars, mergeVars, sideVars, storeVars, userId, userGenres, toReadLite, seen,
                   excludeGoogleIds, weights, fetchVars, scoreVars, status, body>>

\* prisma.userBook.findMany returns: the exclusion set and the weights are fixed
ReadSeen ==
    /\ pc = "seen"
    /\ seen' = userBooks
    /\ excludeGoogleIds' = LiteIds(toReadLite) \cup LiteIds(finishedLite)
                              \cup {b \in userBooks : b # <<>>}
    /\ weights' = chooseWeights(finishedLite)
    /\ genreIdx' = 1
    /\ pc' = "fetch"
    /\ UNCHANGED <<matchVars, mergeVars, sideVars, storeVars, userId, userGenres, pendingReads, toReadLite,
                   finishedLite, candidateMap, counters, scoreVars, status, body>>

\* fetchedTotal += rawBooks.length, then the loop over rawBooks
loopOverRawBooks(rawBooks, map, ctrs, ug, exclude) ==
    ProcessBooks(map, [ctrs EXCEPT !.fetchedTotal = @ + Len(rawBooks)], rawBooks, ug, exclude)

\* fetchBooksFromGoogle returns for the current user genre: the loop over
\* rawBooks runs, then the next genre is fetched or the candidates are complete
FetchGenre ==
    /\ pc = "fetch"
    /\ \E items \in SeqsUpTo(upstream, MaxFetch) :
       \E covers \in [1..Len(items) -> {<<>>, sCover}] :
          /\ candidateMap' = loopOverRawBooks(fetchBooksFromGoogle(items, covers),
                                              candidateMap, counters,
                                              userGenres[genreIdx], excludeGoogleIds).map
          /\ counters' = loopOverRawBooks(fetchBooksFromGoogle(items, covers),
                                          candidateMap, counters,
                                          userGenres[genreIdx], excludeGoogleIds).counters
    /\ IF genreIdx < Len(userGenres)
       THEN /\ genreIdx' = genreIdx + 1
            /\ UNCHANGED <<pc, status, body>>
       ELSE /\ genreIdx' = genreIdx
            /\ IF Len(candidatesOf(candidateMap')) = 0
               THEN /\ pc' = "sent"
                    /\ status' = 200
                    /\ body' = [kind |-> "list", list |-> <<>>]
               ELSE /\ pc' = "score"
                    /\ UNCHANGED <<status, body>>
    /\ UNCHANGED <<matchVars, mergeVars, sideVars, storeVars, userId, readVars, scoreVars>>

\* a handler that answers a failed fetch with the empty list
FetchFailsAnswersEmpty ==
    /\ pc = "fetch"
    /\ pc' = "sent"
    /\ status' = 200
    /\ body' = [kind |-> "list", list |-> <<>>]
    /\ UNCHANGED <<matchVars, mergeVars, sideVars, storeVars, userId, readVars, fetchVars, scoreVars>>

\* the metadata source fails: the catch block answers 500
FetchFails ==
    /\ pc = "fetch"
    /\ pc' = "sent"
    /\ status' = 500
    /\ body' = [kind |-> "error", error |-> "Failed to fetch recommendations"]
    /\ UNCHANGED <<matchVars, mergeVars, sideVars, storeVars, userId, readVars, fetchVars, scoreVars>>

\* prisma.book.findMany over the candidates, as the Map existingGenreIdsByGoogleId
existingOf(candidates, books, genresOfBooks) ==
    LET known == SelectSeq(candidates, LAMBDA c : c.googleBooksId \in books)
    IN [i \in 1..Len(known) |->
           <<known[i].googleBooksId,
             {g \in 1..Len(GenreTable) : <<known[i].googleBooksId, g>> \in genresOfBooks}>>]

\* candidates.map((c) => ...)
scoreAll(candidates, existing, allGenres, preferredGenreIds, finishedTokenSets, toReadTokenSets, w) ==
    [i \in 1..Len(candidates) |->
        scoreCandidate(candidates[i], existing, allGenres, preferredGenreIds,
                       finishedTokenSets, toReadTokenSets, w)]

\* prisma.book.findMany returns the stored genres of the candidates: they are
\* scored, sorted, and the top is taken
ScoreCandidates ==
    /\ pc = "score"
    /\ existingGenreIdsByGoogleId' = existingOf(candidatesOf(candidateMap), bookIds, bookGenres)
    /\ scored' = SortByScore(
           scoreAll(candidatesOf(candidateMap), existingGenreIdsByGoogleId', AllGenreRows,
                    {userGenres[k].id : k \in 1..Len(userGenres)},
                    shelfTokenSets(finishedLite), shelfTokenSets(toReadLite), weights))
    /\ persistIdx' = 1
    /\ pc' = "persist"
    /\ UNCHANGED <<matchVars, mergeVars, sideVars, storeVars, userId, readVars, fetchVars, status, body>>

\* top.map((r) => ...)
responseOf(top, allGenres) == [i \in 1..Len(top) |-> responseEntry(top[i], allGenres)]

\* one iteration of the loop over top: nothing when there is nothing to
\* persist, else the upsert of the book and the createMany of its genres
persistOne(id, ids, outcome) ==
    /\ ids = {} => outcome = "written"
    /\ bookIds' = IF ids # {} /\ outcome # "upsertFails" THEN bookIds \cup {id} ELSE bookIds
    /\ bookGenres' = IF outcome = "written"
                     THEN bookGenres \cup {<<id, g>> : g \in ids} ELSE bookGenres

\* a loop without the inner try/catch: a failing write reaches the catch
\* block of the handler
PersistNextUncaught ==
    /\ pc = "persist"
    /\ \E outcome \in {"written", "upsertFails", "createManyFails"} :
          /\ persistOne(topOf(scored)[persistIdx].candidate.googleBooksId,
                        genreIdsToPersist(topOf(scored)[persistIdx], existingGenreIdsByGoogleId,
                                          AllGenreRows),
                        outcome)
          /\ IF outcome # "written"
             THEN /\ persistIdx' = persistIdx
                  /\ pc' = "sent"
                  /\ status' = 500
                  /\ body' = [kind |-> "error", error |-> "Failed to fetch recommendations"]
             ELSE IF persistIdx < Len(topOf(scored))
             THEN /\ persistIdx' = persistIdx + 1
                  /\ UNCHANGED <<pc, status, body>>
             ELSE /\ persistIdx' = persistIdx
                  /\ pc' = "sent"
                  /\ status' = 200
                  /\ body' = [kind |-> "list", list |-> responseOf(topOf(scored), AllGenreRows)]
    /\ UNCHANGED <<matchVars, mergeVars, sideVars, upstream, userGenreRows, shelfBooks, userBooks, userId,
                   readVars, fetchVars, existingGenreIdsByGoogleId, scored>>

\* the genres of the next top candidate are written; a failing write is
\* caught; after the last candidate the response is sent
PersistNext ==
    /\ pc = "persist"
    /\ \E outcome \in {"written", "upsertFails", "createManyFails"} :
          persistOne(topOf(scored)[persistIdx].candidate.googleBooksId,
                     genreIdsToPersist(topOf(scored)[persistIdx], existingGenreIdsByGoogleId,
                                       AllGenreRows),
                     outcome)
    /\ IF persistIdx < Len(topOf(scored))
       THEN /\ persistIdx' = persistIdx + 1
            /\ UNCHANGED <<pc, status, body>>
       ELSE /\ persistIdx' = persistIdx
            /\ pc' = "sent"
            /\ status' = 200
            /\ body' = [kind |-> "list", list |-> responseOf(topOf(scored), AllGenreRows)]
    /\ UNCHANGED <<matchVars, mergeVars, sideVars, upstream, userGenreRows, shelfBooks, userBooks, userId,
                   readVars, fetchVars, existingGenreIdsByGoogleId, scored>>

NextRequest ==
    \/ Start
    \/ ReadUserGenres
    \/ ReadToRead
    \/ ReadFinished
    \/ ReadSeen
    \/ FetchGenre
    \/ FetchFails
    \/ ScoreCandidates
    \/ PersistNext

\* the stores a request is checked against
StoreEmpty ==
    [shelfBooks |-> <<>>, userBooks |-> {}, bookIds |-> {}, bookGenres |-> {}]
StoreToReadOnly ==
    [shelfBooks |-> <<ShelfBookRow("To Read", rowEmma)>>,
     userBooks |-> {}, bookIds |-> {idE1, idV5}, bookGenres |-> {<<idV5, 2>>}]
StoreBothShelves ==
    [shelfBooks |-> <<ShelfBookRow("To Read", rowDune), ShelfBookRow("Finished", rowSandworm)>>,
     userBooks |-> {idV6},
     bookIds |-> {idV1, idW1, idV6, idV2},
     bookGenres |-> {<<idV2, 1>>, <<idV2, 4>>}]
Stores == {StoreEmpty, StoreToReadOnly, StoreBothShelves}

\* the lists of preferred genres: distinct ids, in any row order
PreferredLists ==
    {s \in SeqsUpTo(PreferredPool, MaxPreferred) :
        \A i, j \in 1..Len(s) : i # j => s[i] # s[j]}

InitPipeline ==
    /\ SideOff
    /\ MatchOff
    /\ MergeOff
    /\ upstream = Catalogue
    /\ userGenreRows \in PreferredLists
    /\ \E store \in Stores :
          /\ shelfBooks = store.shelfBooks
          /\ userBooks = store.userBooks
          /\ bookIds = store.bookIds
          /\ bookGenres = store.bookGenres
    /\ NoRequest

SpecPipeline == InitPipeline /\ [][NextRequest]_vars

----------------------------------------------------------------------------
(* The store operations of the user: markSeen.ts, shelves.ts *)

FavoritesLimit == 10

\* the books a client sends
ClientBooks == {rowDune}

hasRow(rows, shelf, id) ==
    \E i \in 1..Len(rows) : rows[i].shelf = shelf /\ rows[i].googleBooksId = id

\* prisma.shelfBook.upsert: a present row is updated in place, a new one is
\* the most recently added
upsertRow(rows, shelf, b) ==
    IF hasRow(rows, shelf, b.googleBooksId)
    THEN [i \in 1..Len(rows) |->
             IF rows[i].shelf = shelf /\ rows[i].googleBooksId = b.googleBooksId
             THEN ShelfBookRow(shelf, b) ELSE rows[i]]
    ELSE <<ShelfBookRow(shelf, b)>> \o rows

\* POST /api/markSeen
MarkSeen ==
    \E b \in ClientBooks :
        /\ bookIds' = bookIds \cup {b.googleBooksId}
        /\ userBooks' = userBooks \cup {b.googleBooksId}
        /\ UNCHANGED <<matchVars, mergeVars, sideVars, upstream, userGenreRows, shelfBooks,
                       bookGenres, reqVars>>

\* POST /api/shelves/add-to-to-read: the book is created, then refused when it
\* is on the Finished shelf
AddToToRead ==
    \E b \in ClientBooks :
        /\ bookIds' = bookIds \cup {b.googleBooksId}
        /\ shelfBooks' = IF hasRow(shelfBooks, "Finished", b.googleBooksId) THEN shelfBooks
                         ELSE upsertRow(shelfBooks, "To Read", b)
        /\ UNCHANGED <<matchVars, mergeVars, sideVars, upstream, userGenreRows, userBooks,
                       bookGenres, reqVars>>

\* POST /api/shelves/add-to-finished: refused when the book is on the To Read shelf
AddToFinished ==
    \E b \in ClientBooks :
        /\ bookIds' = bookIds \cup {b.googleBooksId}
        /\ shelfBooks' = IF hasRow(shelfBooks, "To Read", b.googleBooksId) THEN shelfBooks
                         ELSE upsertRow(shelfBooks, "Finished", b)
        /\ UNCHANGED <<matchVars, mergeVars, sideVars, upstream, userGenreRows, userBooks,
                       bookGenres, reqVars>>

\* the loop over booksToAdd
RECURSIVE upsertAll(_, _, _)
upsertAll(rows, shelf, books) ==
    IF books = <<>> THEN rows
    ELSE upsertAll(IF Head(books).googleBooksId = <<>> THEN rows
                   ELSE upsertRow(rows, shelf, Head(books)),
                   shelf, Tail(books))

\* POST /api/shelves/add-to-favorites: refused as a whole when the shelf would
\* pass the limit
AddToFavorites ==
    \E booksToAdd \in {<<b>> : b \in ClientBooks} :
        IF Len(shelfOf(shelfBooks, "Favorites")) + Len(booksToAdd) > FavoritesLimit
        THEN UNCHANGED vars
        ELSE /\ bookIds' = bookIds \cup
                    ({booksToAdd[i].googleBooksId : i \in 1..Len(booksToAdd)} \ {<<>>})
             /\ shelfBooks' = upsertAll(shelfBooks, "Favorites", booksToAdd)
             /\ UNCHANGED <<matchVars, mergeVars, sideVars, upstream, userGenreRows, userBooks,
                            bookGenres, reqVars>>

\* DELETE /api/shelves/remove-from-favorites
RemoveFromFavorites ==
    \E b \in ClientBooks :
        /\ hasRow(shelfBooks, "Favorites", b.googleBooksId)
        /\ shelfBooks' = SelectSeq(shelfBooks,
              LAMBDA r : ~(r.shelf = "Favorites" /\ r.googleBooksId = b.googleBooksId))
        /\ UNCHANGED <<matchVars, mergeVars, sideVars, upstream, userGenreRows, userBooks, bookIds,
                       bookGenres, reqVars>>

\* DELETE /api/shelves/delete-books: the rows named are deleted from the user's shelves
DeleteBooks ==
    \E gone \in SUBSET Range(shelfBooks) :
        /\ gone # {}
        /\ shelfBooks' = SelectSeq(shelfBooks, LAMBDA r : r \notin gone)
        /\ UNCHANGED <<matchVars, mergeVars, sideVars, upstream, userGenreRows, userBooks, bookIds,
                       bookGenres, reqVars>>

\* PUT /api/shelves/move-book: the row changes shelf and keeps its date; the
\* update fails when the target shelf has a row of the same book
MoveBook ==
    \E i \in 1..Len(shelfBooks), targetShelfName \in ShelfNames :
        /\ targetShelfName # shelfBooks[i].shelf
        /\ ~hasRow(shelfBooks, targetShelfName, shelfBooks[i].googleBooksId)
        /\ shelfBooks' = [shelfBooks EXCEPT ![i].shelf = targetShelfName]
        /\ UNCHANGED <<matchVars, mergeVars, sideVars, upstream, userGenreRows, userBooks, bookIds,
                       bookGenres, reqVars>>

\* a user with one preferred genre, who marked one book seen
InitUser ==
    /\ SideOff
    /\ MatchOff
    /\ MergeOff
    /\ upstream = SmallCatalogue
    /\ userGenreRows = <<1>>
    /\ shelfBooks = <<>>
    /\ userBooks = {idV5}
    /\ bookIds = {idV5}
    /\ bookGenres = {}
    /\ NoRequest

Init == InitUser

Next ==
    \/ Start
    \/ StartAgain
    \/ ReadUserGenres
    \/ ReadToRead
    \/ ReadFinished
    \/ ReadSeen
    \/ FetchGenre
    \/ FetchFails
    \/ ScoreCandidates
    \/ PersistNext
    \/ MarkSeen
    \/ AddToToRead
    \/ AddToFinished
    \/ AddToFavorites
    \/ RemoveFromFavorites
    \/ DeleteBooks
    \/ MoveBook

Spec == Init /\ [][Next]_vars

----------------------------------------------------------------------------
(* The loop over rawBooks alone: raw candidates processed one at a time *)

MaxMerge == 2

\* a raw candidate as fetchBooksFromGoogle returns it, with the user genre
\* whose query returned it
MergeInputs ==
    {[book |-> VolumeToBook(v, sCover), ug |-> GenreRow(g)] :
        v \in Collisions, g \in PreferredPool}

InitMerge ==
    /\ SideOff
    /\ MatchOff
    /\ EmptyStore
    /\ NoRequest
    /\ mgInputs \in SeqsUpTo(MergeInputs, MaxMerge)
    /\ mgStep = 0
    /\ mgPrev = <<>>

\* one iteration of the loop over rawBooks
MergeNext ==
    /\ mgStep < Len(mgInputs)
    /\ mgStep' = mgStep + 1
    /\ mgPrev' = candidateMap
    /\ candidateMap' = ProcessBook(candidateMap, counters, mgInputs[mgStep + 1].book,
                                   mgInputs[mgStep + 1].ug, excludeGoogleIds).map
    /\ counters' = ProcessBook(candidateMap, counters, mgInputs[mgStep + 1].book,
                               mgInputs[mgStep + 1].ug, excludeGoogleIds).counters
    /\ UNCHANGED <<matchVars, sideVars, storeVars, pc, userId, readVars, genreIdx, scoreVars,
                   status, body, mgInputs>>

NextMerge == MergeNext

SpecMerge == InitMerge /\ [][NextMerge]_vars

----------------------------------------------------------------------------
(* jaccardSimilarity alone: one call on two token sets, and the call with the
   arguments exchanged *)

MaxTokens == 3

\* the tokens the two sets are drawn from
TokenList == <<dSand, dWorm, dEmma, dArts, dSandworm>>
TokenPool == {TokenList[i] : i \in 1..MaxTokens}

InitSimilarity ==
    /\ MatchOff
    /\ MergeOff
    /\ EmptyStore
    /\ NoRequest
    /\ simPc = "input"
    /\ simA \in SUBSET TokenPool
    /\ simB \in SUBSET TokenPool
    /\ simScore = Zero
    /\ simBack = Zero
    /\ SelOff
    /\ LimitersIdle
    /\ FetchOff
    /\ PersistOff
    /\ RoundRobinOff
    /\ ShelvesOff
    /\ MaxSimOff
    /\ DeriveOff
    /\ NoPrevious
    /\ SearchOff

Similarity ==
    /\ simPc = "input"
    /\ simPc' = "done"
    /\ simScore' = jaccardSimilarity(simA, simB)
    /\ simBack' = jaccardSimilarity(simB, simA)
    /\ UNCHANGED <<matchVars, mergeVars, storeVars, reqVars, simA, simB, selVars, limVars, fbVars, psVars, rrVars, shVars, msVars, dvVars, twVars, srVars>>

NextSimilarity == Similarity

SpecSimilarity == InitSimilarity /\ [][NextSimilarity]_vars

----------------------------------------------------------------------------
(* The ranked selection alone: lists longer than the limit of the response *)

MaxScored == 22

\* a scored candidate at position i of the aggregator's output, with a score
\* that repeats along the list
ScoredAt(i, k, m) ==
    [candidate |-> [googleBooksId |-> i], score |-> Rat((i * k) % m, m)]

ScoredLists ==
    {[i \in 1..n |-> ScoredAt(i, k, m)] : n \in 0..MaxScored, k \in 0..3, m \in {3, 7, 11}}

InitSelect ==
    /\ MatchOff
    /\ MergeOff
    /\ EmptyStore
    /\ NoRequest
    /\ SimOff
    /\ LimitersIdle
    /\ FetchOff
    /\ PersistOff
    /\ RoundRobinOff
    /\ ShelvesOff
    /\ MaxSimOff
    /\ DeriveOff
    /\ NoPrevious
    /\ SearchOff
    /\ selPc = "input"
    /\ selInput \in ScoredLists
    /\ selTop = <<>>

\* scored.sort((a, b) => b.score - a.score); const top = scored.slice(0, 20)
Select ==
    /\ selPc = "input"
    /\ selPc' = "done"
    /\ selTop' = topOf(SortByScore(selInput))
    /\ UNCHANGED <<matchVars, mergeVars, storeVars, reqVars, simVars, limVars, fbVars, psVars, rrVars, shVars, msVars, dvVars, twVars, srVars,
                   selInput>>

NextSelect == Select

SpecSelect == InitSelect /\ [][NextSelect]_vars

----------------------------------------------------------------------------
(* The limiters of upstream lookups: pLimit(5) in recommendations.ts and in
   search.ts, called by the handlers of all requests of the process *)

Concurrency == 5
MaxWaiting == 1

\* limit(fn): fn starts when fewer than Concurrency calls of this limiter are
\* running, else it waits in the queue of this limiter
Submit(l) ==
    /\ pendingCount[l] < MaxWaiting
    /\ IF activeCount[l] < Concurrency
       THEN /\ activeCount' = [activeCount EXCEPT ![l] = @ + 1]
            /\ UNCHANGED pendingCount
       ELSE /\ pendingCount' = [pendingCount EXCEPT ![l] = @ + 1]
            /\ UNCHANGED activeCount
    /\ UNCHANGED <<matchVars, mergeVars, storeVars, reqVars, simVars, selVars, fbVars, psVars, rrVars, shVars, msVars, dvVars, twVars, srVars>>

\* fetchCoverWithLimit of recommendations.ts, for one item of a response
RecommendationCoverLookup == Submit("recommendations.limit")

\* fetchCoverWithLimit of search.ts, for one item of a response
SearchCoverLookup == Submit("search.limit")

\* fetchGoogleVolumeCategoriesWithLimit of search.ts
SearchVolumeLookup == Submit("search.googleVolumeLimit")

\* a running lookup settles: the first waiting call of its limiter starts
LookupSettles ==
    \E l \in Limiters :
        /\ activeCount[l] > 0
        /\ IF pendingCount[l] > 0
           THEN /\ pendingCount' = [pendingCount EXCEPT ![l] = @ - 1]
                /\ UNCHANGED activeCount
           ELSE /\ activeCount' = [activeCount EXCEPT ![l] = @ - 1]
                /\ UNCHANGED pendingCount
        /\ UNCHANGED <<matchVars, mergeVars, storeVars, reqVars, simVars, selVars, fbVars, psVars, rrVars, shVars, msVars, dvVars, twVars, srVars>>

InitLimiter ==
    /\ MatchOff
    /\ MergeOff
    /\ EmptyStore
    /\ NoRequest
    /\ SimOff
    /\ SelOff
    /\ LimitersIdle
    /\ FetchOff
    /\ PersistOff
    /\ RoundRobinOff
    /\ ShelvesOff
    /\ MaxSimOff
    /\ DeriveOff
    /\ NoPrevious
    /\ SearchOff

NextLimiter ==
    \/ RecommendationCoverLookup
    \/ SearchCoverLookup
    \/ SearchVolumeLookup
    \/ LookupSettles

SpecLimiter == InitLimiter /\ [][NextLimiter]_vars

----------------------------------------------------------------------------
(* fetchBooksFromGoogle alone: one response of the metadata source, and the
   answers of the cover source to the lookups of its items *)

\* what axios.get of the cover source does: it throws (status 429, or another
\* error), or it answers with docs
OpenLibraryResponses ==
    {[threw |-> TRUE, status |-> 429, docs |-> <<>>],
     [threw |-> TRUE, status |-> 500, docs |-> <<>>],
     [threw |-> FALSE, status |-> 200, docs |-> <<>>],
     [threw |-> FALSE, status |-> 200, docs |-> <<[cover_i |-> 0]>>],
     [threw |-> FALSE, status |-> 200, docs |-> <<[cover_i |-> 0], [cover_i |-> 7]>>]}

InitFetch ==
    /\ MatchOff
    /\ MergeOff
    /\ EmptyStore
    /\ NoRequest
    /\ SimOff
    /\ SelOff
    /\ LimitersIdle
    /\ PersistOff
    /\ RoundRobinOff
    /\ ShelvesOff
    /\ MaxSimOff
    /\ DeriveOff
    /\ NoPrevious
    /\ SearchOff
    /\ fbPc = "input"
    /\ fbItems \in SeqsUpTo(Catalogue, MaxFetch)
    /\ fbResponses \in [1..Len(fbItems) -> OpenLibraryResponses]
    /\ fbResult = <<>>

\* the covers of Promise.all(items.map(...)): one lookup per item
coversOf(responses) == [i \in 1..Len(responses) |-> fetchOpenLibraryCover(responses[i])]

\* Promise.all rejects when a lookup rejects; else the books are filtered
booksOrThrown(items, covers) ==
    IF Thrown \in Range(covers) THEN Thrown
    ELSE [books |-> fetchBooksFromGoogle(items, covers)]

FetchBooks ==
    /\ fbPc = "input"
    /\ fbPc' = "done"
    /\ fbResult' = booksOrThrown(fbItems, coversOf(fbResponses))
    /\ UNCHANGED <<matchVars, mergeVars, storeVars, reqVars, simVars, selVars, limVars,
                   psVars, rrVars, shVars, msVars, dvVars, twVars, srVars, fbItems, fbResponses>>

NextFetch == FetchBooks

SpecFetch == InitFetch /\ [][NextFetch]_vars

----------------------------------------------------------------------------
(* One iteration of the loop over top on the tables themselves: the upsert of
   the book by its googleBooksId and the createMany of its genres *)

\* the id of the row of a googleBooksId, 0 when it has none
bookIdOf(books, googleBooksId) ==
    IF \E i \in 1..Len(books) : books[i].googleBooksId = googleBooksId
    THEN books[CHOOSE i \in 1..Len(books) : books[i].googleBooksId = googleBooksId].id
    ELSE 0

\* SERIAL: the next id of the table
nextId(books) ==
    IF books = <<>> THEN 1
    ELSE 1 + (CHOOSE m \in {books[i].id : i \in 1..Len(books)} :
                 \A i \in 1..Len(books) : books[i].id <= m)

\* prisma.book.upsert({ where: { googleBooksId }, create: { googleBooksId }, update: {} })
bookUpsert(books, googleBooksId) ==
    IF bookIdOf(books, googleBooksId) # 0 THEN books
    ELSE Append(books, [id |-> nextId(books), googleBooksId |-> googleBooksId])

hasPair(rows, data) ==
    \E i \in 1..Len(rows) : rows[i].bookId = data.bookId /\ rows[i].genreId = data.genreId

\* an insert that does not skip the rows already there
RECURSIVE createManyAll(_, _)
createManyAll(rows, data) ==
    IF data = <<>> THEN rows
    ELSE createManyAll(Append(rows, Head(data)), Tail(data))

\* prisma.bookGenre.createMany({ data, skipDuplicates: true })
RECURSIVE createManySkipDuplicates(_, _)
createManySkipDuplicates(rows, data) ==
    IF data = <<>> THEN rows
    ELSE createManySkipDuplicates(
             IF hasPair(rows, Head(data)) THEN rows ELSE Append(rows, Head(data)),
             Tail(data))

\* Array.from(genreIdsToPersist).map((genreId) => ({ bookId: upserted.id, genreId }))
dataOf(bookId, ids) ==
    [i \in 1..Len(SortAsc(ids)) |-> [bookId |-> bookId, genreId |-> SortAsc(ids)[i]]]

\* the body of the loop over top, when its writes succeed
persistStep(tables, googleBooksId, ids) ==
    IF ids = {} THEN tables
    ELSE [books |-> bookUpsert(tables.books, googleBooksId),
          bookGenres |->
              createManySkipDuplicates(
                  tables.bookGenres,
                  dataOf(bookIdOf(bookUpsert(tables.books, googleBooksId), googleBooksId), ids))]

PersistGenrePool == 1..3
PersistIds == {idV1, idV2}

\* the tables as the unique indexes allow them: one row per googleBooksId, one
\* row per (bookId, genreId), every bookId that of a row of Book
BookTables ==
    {<<>>} \cup {<<[id |-> 1, googleBooksId |-> g]>> : g \in PersistIds}
           \cup {<<[id |-> 1, googleBooksId |-> p[1]], [id |-> 3, googleBooksId |-> p[2]]>> :
                    p \in {q \in PersistIds \X PersistIds : q[1] # q[2]}}

RECURSIVE rowsOfPairs(_)
rowsOfPairs(pairs) ==
    IF pairs = {} THEN <<>>
    ELSE LET p == CHOOSE q \in pairs :
                     \A r \in pairs : q[1] < r[1] \/ (q[1] = r[1] /\ q[2] <= r[2])
         IN <<[bookId |-> p[1], genreId |-> p[2]]>> \o rowsOfPairs(pairs \ {p})

BookGenreTables(books) ==
    {rowsOfPairs(pairs) :
        pairs \in SUBSET ({books[i].id : i \in 1..Len(books)} \X PersistGenrePool)}

InitPersist ==
    /\ MatchOff
    /\ MergeOff
    /\ EmptyStore
    /\ NoRequest
    /\ SimOff
    /\ SelOff
    /\ LimitersIdle
    /\ FetchOff
    /\ SearchOff
    /\ RoundRobinOff
    /\ ShelvesOff
    /\ MaxSimOff
    /\ DeriveOff
    /\ NoPrevious
    /\ psPc = "input"
    /\ psBooks \in BookTables
    /\ psBookGenres \in BookGenreTables(psBooks)
    /\ psGoogleBooksId \in PersistIds
    /\ psToPersist \in SUBSET PersistGenrePool
    /\ psBefore = [books |-> psBooks, bookGenres |-> psBookGenres]
    /\ psOnce = NoTables

\* the iteration for r, its writes succeeding
PersistOnce ==
    /\ psPc = "input"
    /\ psPc' = "once"
    /\ psBooks' = persistStep(psBefore, psGoogleBooksId, psToPersist).books
    /\ psBookGenres' = persistStep(psBefore, psGoogleBooksId, psToPersist).bookGenres
    /\ psOnce' = [books |-> psBooks', bookGenres |-> psBookGenres']
    /\ UNCHANGED <<matchVars, mergeVars, storeVars, reqVars, simVars, selVars, limVars, fbVars,
                   srVars, rrVars, shVars, msVars, dvVars, twVars, psGoogleBooksId, psToPersist, psBefore>>

\* the same iteration on the tables it left
PersistAgain ==
    /\ psPc = "once"
    /\ psPc' = "twice"
    /\ psBooks' = persistStep(psOnce, psGoogleBooksId, psToPersist).books
    /\ psBookGenres' = persistStep(psOnce, psGoogleBooksId, psToPersist).bookGenres
    /\ UNCHANGED <<matchVars, mergeVars, storeVars, reqVars, simVars, selVars, limVars, fbVars,
                   srVars, rrVars, shVars, msVars, dvVars, twVars, psGoogleBooksId, psToPersist, psBefore, psOnce>>

NextPersist ==
    \/ PersistOnce
    \/ PersistAgain

SpecPersist == InitPersist /\ [][NextPersist]_vars

----------------------------------------------------------------------------
(* GET /search: src/routes/search.ts *)

\* the collation rank of a character: white space, then punctuation, then
\* digits, then letters, a letter and its capital on one rank
IndexIn(seq, c) == CHOOSE i \in 1..Len(seq) : seq[i] = c
CollationRank(c) ==
    IF c \in SpaceChars THEN 1
    ELSE IF c \in Digits THEN 10 + DigitValue(c)
    ELSE IF c \in Range(LowerAlpha) THEN 20 + IndexIn(LowerAlpha, c)
    ELSE IF c \in UpperChars THEN 20 + IndexIn(UpperAlpha, c)
    ELSE 2

\* the comparison of two strings rank by rank: -1, 0 or 1
RECURSIVE PrimaryCompare(_, _)
PrimaryCompare(a, b) ==
    IF a = <<>> /\ b = <<>> THEN 0
    ELSE IF a = <<>> THEN -1
    ELSE IF b = <<>> THEN 1
    ELSE IF CollationRank(Head(a)) < CollationRank(Head(b)) THEN -1
    ELSE IF CollationRank(Head(a)) > CollationRank(Head(b)) THEN 1
    ELSE PrimaryCompare(Tail(a), Tail(b))

\* strings of equal ranks: at the first difference the small letter comes first
RECURSIVE CaseCompare(_, _)
CaseCompare(a, b) ==
    IF a = <<>> \/ b = <<>> THEN 0
    ELSE IF Head(a) = Head(b) THEN CaseCompare(Tail(a), Tail(b))
    ELSE IF Head(b) \in UpperChars THEN -1
    ELSE IF Head(a) \in UpperChars THEN 1
    ELSE CaseCompare(Tail(a), Tail(b))

\* String.prototype.localeCompare
localeCompare(a, b) ==
    IF PrimaryCompare(a, b) # 0 THEN PrimaryCompare(a, b) ELSE CaseCompare(a, b)

\* truncateDescription of search.ts
searchTruncateDescription(text, wordLimit) ==
    IF text = <<>> THEN <<>> ELSE truncateDescription(text, wordLimit)

\* fetchGoogleVolumeCategories, given what axios.get did
fetchGoogleVolumeCategories(res) == IF res.threw THEN <<>> ELSE res.categories

\* one entry of metadata with its cover and its volume categories: the book,
\* or Null when it is dropped
searchBookOf(meta, coverUrl, volumeCategories, genres) ==
    IF coverUrl = <<>> \/ meta.description = <<>> THEN Null
    ELSE IF \/ Includes(toLowerCase(meta.title), sAnnotated)
            \/ Includes(toLowerCase(meta.title), sIllustrated) THEN Null
    ELSE LET categoriesForMatching ==
                 IF Len(volumeCategories) > 0 THEN volumeCategories ELSE meta.categories
             matchedGenres == matchGenresFromCategories(categoriesForMatching, genres)
         IN [id |-> 0,
             title |-> meta.title,
             authors |-> IF Join(meta.authors, <<",", " ">>) = <<>> THEN sUnknown
                         ELSE Join(meta.authors, <<",", " ">>),
             coverUrl |-> coverUrl,
             googleBooksId |-> meta.id,
             description |-> searchTruncateDescription(meta.description, WordLimit),
             averageRating |-> meta.averageRating,
             categories |-> categoriesForMatching,
             sourceGenreIds |-> [i \in 1..Len(matchedGenres) |-> matchedGenres[i].id],
             sourceGenreNames |-> [i \in 1..Len(matchedGenres) |-> matchedGenres[i].name]]

\* filteredBooks: books.filter(Boolean)
filteredBooksOf(items, covers, volumes, genres) ==
    SelectSeq([i \in 1..Len(items) |->
                  searchBookOf(items[i], covers[i],
                               fetchGoogleVolumeCategories(volumes[i]), genres)],
              LAMBDA b : b # Null)

\* `${book.title.toLowerCase()}|${book.authors.toLowerCase()}`
searchKey(book) == toLowerCase(book.title) \o <<"|">> \o toLowerCase(book.authors)

\* a loop that sets the key every time
RECURSIVE uniqueBooksKeepLast(_, _)
uniqueBooksKeepLast(filteredBooks, uniqueBooksMap) ==
    IF filteredBooks = <<>> THEN uniqueBooksMap
    ELSE uniqueBooksKeepLast(
             Tail(filteredBooks),
             MapSet(uniqueBooksMap, searchKey(Head(filteredBooks)), Head(filteredBooks)))

\* the loop over filteredBooks: the first book of a key is kept
RECURSIVE uniqueBooksLoop(_, _)
uniqueBooksLoop(filteredBooks, uniqueBooksMap) ==
    IF filteredBooks = <<>> THEN uniqueBooksMap
    ELSE uniqueBooksLoop(
             Tail(filteredBooks),
             IF MapHas(uniqueBooksMap, searchKey(Head(filteredBooks))) THEN uniqueBooksMap
             ELSE MapSet(uniqueBooksMap, searchKey(Head(filteredBooks)), Head(filteredBooks)))

\* the comparator of uniqueBooks.sort
compareBooks(a, b) ==
    IF localeCompare(a.title, b.title) # 0 THEN localeCompare(a.title, b.title)
    ELSE localeCompare(a.authors, b.authors)

\* Array.prototype.sort with that comparator: stable
RECURSIVE InsertByTitle(_, _)
InsertByTitle(sorted, b) ==
    IF sorted = <<>> THEN <<b>>
    ELSE IF compareBooks(b, Head(sorted)) < 0 THEN <<b>> \o sorted
    ELSE <<Head(sorted)>> \o InsertByTitle(Tail(sorted), b)
RECURSIVE SortByTitle(_)
SortByTitle(books) ==
    IF books = <<>> THEN <<>>
    ELSE InsertByTitle(SortByTitle(SubSeq(books, 1, Len(books) - 1)), books[Len(books)])

\* what fetchBooksFromGoogle of search.ts returns for filteredBooks
uniqueSorted(filteredBooks) == SortByTitle(MapValues(uniqueBooksLoop(filteredBooks, <<>>)))

\* the id of the Book row of a googleBooksId
KnownIds == <<idV1, idV2, idV3, idV4, idV5, idV6, idV8, idV9, idE1, idW1>>
rowIdOf(googleBooksId) == IndexIn(KnownIds, googleBooksId)

\* the orders in which the rows of a set can be returned
OrdersOf(set) ==
    {f \in [1..Cardinality(set) -> set] : \A i, j \in 1..Cardinality(set) : i # j => f[i] # f[j]}

\* books.map((b) => ...): the overlay of the stored genres; genresOf gives,
\* for a book with a row, its BookGenre rows as the store returned them
mergedOf(books, rows, genresOf) ==
    [i \in 1..Len(books) |->
        IF books[i].googleBooksId \notin rows THEN books[i]
        ELSE IF Len(genresOf[books[i].googleBooksId]) = 0 THEN books[i]
        ELSE [books[i] EXCEPT
                 !.id = rowIdOf(books[i].googleBooksId),
                 !.sourceGenreIds = genresOf[books[i].googleBooksId],
                 !.sourceGenreNames =
                     [k \in 1..Len(genresOf[books[i].googleBooksId]) |->
                         GenreTable[genresOf[books[i].googleBooksId][k]]]]]

SearchQueries == {<<>>, <<" ">>, <<" ", "d", "u", "n", "e">>}

\* the request arrives: the query is trimmed and checked
SearchArrive ==
    /\ srPc = "idle"
    /\ \E q \in SearchQueries :
          /\ srQuery' = trim(q)
          /\ IF trim(q) = <<>>
             THEN /\ srPc' = "sent"
                  /\ srStatus' = 400
                  /\ srBody' = [kind |-> "error", error |-> "Missing query"]
             ELSE /\ srPc' = "genres"
                  /\ UNCHANGED <<srStatus, srBody>>
    /\ UNCHANGED <<matchVars, mergeVars, storeVars, reqVars, simVars, selVars, limVars, fbVars,
                   psVars, rrVars, shVars, msVars, dvVars, twVars, srGenres, srFiltered, srBooks>>

\* prisma.genre.findMany returns
SearchReadGenres ==
    /\ srPc = "genres"
    /\ srGenres' = AllGenreRows
    /\ srPc' = "fetch"
    /\ UNCHANGED <<matchVars, mergeVars, storeVars, reqVars, simVars, selVars, limVars, fbVars,
                   psVars, rrVars, shVars, msVars, dvVars, twVars, srQuery, srFiltered, srBooks, srStatus, srBody>>

MaxSearchFetch == 3
VolumeResponses ==
    {[threw |-> TRUE, categories |-> <<>>],
     [threw |-> FALSE, categories |-> <<cArtsAndCrafts>>]}

\* fetchBooksFromGoogle returns: the items of the response with the cover and
\* the volume categories found for each, without doubles, sorted
SearchFetch ==
    /\ srPc = "fetch"
    /\ \E items \in SeqsUpTo(upstream, MaxSearchFetch) :
       \E covers \in [1..Len(items) -> {<<>>, sCover}] :
       \E volumes \in [1..Len(items) -> VolumeResponses] :
          /\ srFiltered' = filteredBooksOf(items, covers, volumes, srGenres)
          /\ srBooks' = uniqueSorted(srFiltered')
    /\ srPc' = "overlay"
    /\ UNCHANGED <<matchVars, mergeVars, storeVars, reqVars, simVars, selVars, limVars, fbVars,
                   psVars, rrVars, shVars, msVars, dvVars, twVars, srQuery, srGenres, srStatus, srBody>>

\* the genre ids of the BookGenre rows of a book
genreIdsOf(id) == {g \in 1..Len(GenreTable) : <<id, g>> \in bookGenres}

\* prisma.book.findMany returns: the stored genres are laid over the books
\* and the list is sent
SearchOverlay ==
    /\ srPc = "overlay"
    /\ \E genresOf \in [bookIds -> UNION {OrdersOf(genreIdsOf(id)) : id \in bookIds}] :
          /\ \A id \in bookIds : Range(genresOf[id]) = genreIdsOf(id)
          /\ srBody' = [kind |-> "list", list |-> mergedOf(srBooks, bookIds, genresOf)]
    /\ srStatus' = 200
    /\ srPc' = "sent"
    /\ UNCHANGED <<matchVars, mergeVars, storeVars, reqVars, simVars, selVars, limVars, fbVars,
                   psVars, rrVars, shVars, msVars, dvVars, twVars, srQuery, srGenres, srFiltered, srBooks>>

\* a read of the store or the metadata source fails: the catch block answers 500
SearchFails ==
    /\ srPc \in {"genres", "fetch", "overlay"}
    /\ srPc' = "sent"
    /\ srStatus' = 500
    /\ srBody' = [kind |-> "error", error |-> "Failed to fetch search results"]
    /\ UNCHANGED <<matchVars, mergeVars, storeVars, reqVars, simVars, selVars, limVars, fbVars,
                   psVars, rrVars, shVars, msVars, dvVars, twVars, srQuery, srGenres, srFiltered, srBooks>>

tDuneLower == <<"d", "u", "n", "e">>
vDuneLower == Volume(idV3, tDuneLower, <<aHerbert>>, dWorm, Rat(4, 1), <<cFICTION>>)
SearchCatalogue == {vDune1, vDune2, vDune4, vDuneLower, vAnon, vEmma}

InitSearch ==
    /\ MatchOff
    /\ MergeOff
    /\ NoRequest
    /\ SimOff
    /\ SelOff
    /\ LimitersIdle
    /\ FetchOff
    /\ PersistOff
    /\ RoundRobinOff
    /\ ShelvesOff
    /\ MaxSimOff
    /\ DeriveOff
    /\ NoPrevious
    /\ upstream = SearchCatalogue
    /\ userGenreRows = <<>>
    /\ \E store \in Stores :
          /\ shelfBooks = store.shelfBooks
          /\ userBooks = store.userBooks
          /\ bookIds = store.bookIds
          /\ bookGenres = store.bookGenres
    /\ srPc = "idle"
    /\ srQuery = <<>>
    /\ srGenres = <<>>
    /\ srFiltered = <<>>
    /\ srBooks = <<>>
    /\ srStatus = 0
    /\ srBody = NoBody

NextSearch ==
    \/ SearchArrive
    \/ SearchReadGenres
    \/ SearchFetch
    \/ SearchFails
    \/ SearchOverlay

SpecSearch == InitSearch /\ [][NextSearch]_vars

----------------------------------------------------------------------------
(* Properties of the matcher, stated on the words of a string directly *)

\* the maximal runs of [a-z0-9] in the lowercased string
AlnumRuns(s) ==
    LET l == toLowerCase(s)
        starts == {i \in 1..Len(l) :
                      IsLowerAlnum(l[i]) /\ (i = 1 \/ ~IsLowerAlnum(l[i - 1]))}
        EndOf(i) == CHOOSE j \in i..Len(l) :
                        /\ \A k \in i..j : IsLowerAlnum(l[k])
                        /\ (j = Len(l) \/ ~IsLowerAlnum(l[j + 1]))
    IN {SubSeq(l, i, EndOf(i)) : i \in starts}

\* the tokens of a string: its words of at least three characters
WordTokens(s) == {t \in AlnumRuns(s) : Len(t) >= 3}

IdsOf(gs) == {gs[i].id : i \in 1..Len(gs)}

\* a part of the genre's name has tokens, all of which occur in category c
PartWithin(g, c) ==
    \E p \in Range(splitGenreParts(g.name)) :
        WordTokens(p) # {} /\ WordTokens(p) \subseteq WordTokens(c)

\* C1: the result holds exactly the matched genres that no other matched genre
\* with a strictly larger full token set contains; so no result genre's tokens
\* are a strict subset of another's, and Scenario A yields genre 2 alone.
C1_PruningLaw ==
    mPc = "done" =>
        LET M == Range(mMatched)
            R == Range(mResult)
            T(g) == WordTokens(g.name)
        IN /\ R = {a \in M : ~\E b \in M : /\ b # a
                                            /\ Cardinality(T(b)) > Cardinality(T(a))
                                            /\ T(a) \subseteq T(b)}
           /\ \A a \in R, b \in R : ~(T(a) \subseteq T(b) /\ T(a) # T(b))
           /\ (mCategories = <<sScienceFiction>> /\ mGenres = <<GenreRow(1), GenreRow(2)>>
                 => mResult = <<GenreRow(2)>>)

\* a general genre was pruned while two matched genres with equal token sets both stay
C1_Witness ==
    /\ mPc = "done"
    /\ \E a \in Range(mMatched) : a \notin Range(mResult)
    /\ \E a \in Range(mResult), b \in Range(mResult) :
          a # b /\ WordTokens(a.name) = WordTokens(b.name)

\* C2: before pruning, G is matched iff some part of its name has a non-empty
\* token set contained in the token set of some supplied category.
C2_RawMatchRule ==
    mPc = "done" =>
        IdsOf(mMatched) =
            {g.id : g \in {h \in Range(mGenres) :
                              \E c \in Range(mCategories) : PartWithin(h, c)}}

\* a genre matched a category that has extra tokens, and a genre with a
\* token-less part ("YA/Arts") stayed unmatched
C2_Witness ==
    /\ mPc = "done"
    /\ \E g \in Range(mMatched), c \in Range(mCategories) :
          PartWithin(g, c) /\ ~(WordTokens(c) \subseteq WordTokens(g.name))
    /\ \E g \in Range(mGenres) :
          /\ g.id \notin IdsOf(mMatched)
          /\ \E p \in Range(splitGenreParts(g.name)) : WordTokens(p) = {}
          /\ \E c \in Range(mCategories) : WordTokens(c) # {}

----------------------------------------------------------------------------
(* Properties of the exclusion of known books *)

\* the external ids of the response
Emitted == {body.list[i].googleBooksId : i \in 1..Len(body.list)}

\* the books on any shelf of the user, and the books marked seen
OnAShelf == {shelfBooks[i].googleBooksId : i \in 1..Len(shelfBooks)}
Known == OnAShelf \cup userBooks

\* what the request read of the To Read shelf, the Finished shelf and the seen
\* books is what the store holds at the response: no read of it is stale
ReadsCurrent ==
    /\ toReadLite = shelfLite("To Read")
    /\ finishedLite = shelfLite("Finished")
    /\ seen = userBooks

ListSent == pc = "sent" /\ status = 200 /\ body.kind = "list"

\* C3: a response of GET /fetch/:userId emits no book that is on one of the
\* user's shelves or marked seen; stated for the responses whose reads of the
\* store are not stale, so that a book added while the request ran is set aside.
C3_NoKnownBookEmitted ==
    (ListSent /\ ReadsCurrent) => Emitted \cap Known = {}

\* a response that emits a book of the Favorites shelf, added before the
\* request read the shelves, while a book on the To Read shelf was skipped
C3_Witness ==
    /\ ListSent
    /\ ReadsCurrent
    /\ counters.skippedExcluded > 0
    /\ \E i \in 1..Len(shelfBooks) :
          /\ shelfBooks[i].shelf = "Favorites"
          /\ shelfBooks[i].googleBooksId \in Emitted

----------------------------------------------------------------------------
(* Properties of the merge on collision *)

\* the descriptive fields of a record: all but the source genres
Descriptive(rec) ==
    [title |-> rec.title, authors |-> rec.authors, coverUrl |-> rec.coverUrl,
     googleBooksId |-> rec.googleBooksId, description |-> rec.description,
     averageRating |-> rec.averageRating, categories |-> rec.categories]

\* a/b > c/d for positive denominators
Greater(x, y) == x[1] * y[2] > y[1] * x[2]
Same(x, y) == x[1] * y[2] = y[1] * x[2]

\* the incoming candidate wins: a higher rating, or the same rating and a
\* strictly longer description
IncomingWins(kept, incoming) ==
    \/ Greater(incoming.averageRating, kept.averageRating)
    \/ /\ Same(incoming.averageRating, kept.averageRating)
       /\ Len(incoming.description) > Len(kept.description)

\* the last processed candidate collided with a record of the map
Collided ==
    /\ mgStep >= 1
    /\ MapHas(mgPrev, normalizedCandidateKey(mgInputs[mgStep].book))

KeyOfLast == normalizedCandidateKey(mgInputs[mgStep].book)

\* C4: when the incoming candidate collides with a kept record, the record
\* stored for the key has the incoming descriptive fields exactly when the
\* incoming rating is higher, or equal with a strictly longer description, and
\* the kept fields otherwise; either way its source genre ids and names are
\* the union of those of the kept record and of the incoming candidate.
C4_MergeOnCollision ==
    Collided =>
        LET kept == MapGet(mgPrev, KeyOfLast)
            incoming == mgInputs[mgStep].book
            ug == mgInputs[mgStep].ug
            now == MapGet(candidateMap, KeyOfLast)
        IN /\ MapHas(candidateMap, KeyOfLast)
           /\ Len(candidateMap) = Len(mgPrev)
           /\ Descriptive(now) = IF IncomingWins(kept, incoming) THEN Descriptive(incoming)
                                 ELSE Descriptive(kept)
           /\ Range(now.sourceGenreIds) = Range(kept.sourceGenreIds) \cup {ug.id}
           /\ Range(now.sourceGenreNames) = Range(kept.sourceGenreNames) \cup {ug.name}
           /\ Len(now.sourceGenreIds) = Cardinality(Range(now.sourceGenreIds))

\* Scenario C: a record rated 3.5 is kept, a candidate rated 4.0 arrives under
\* another genre, and the record now stored has the 4.0 fields and both genres
C4_Witness ==
    /\ Collided
    /\ MapGet(mgPrev, KeyOfLast).averageRating = Rat(7, 2)
    /\ mgInputs[mgStep].book.averageRating = Rat(4, 1)
    /\ MapGet(candidateMap, KeyOfLast).googleBooksId = mgInputs[mgStep].book.googleBooksId
    /\ Cardinality(Range(MapGet(candidateMap, KeyOfLast).sourceGenreIds)) = 2
    /\ counters.dedupedCollisions = 1

\* the map after processing a list of inputs from the empty map
RECURSIVE RunFrom(_, _)
RunFrom(map, inputs) ==
    IF inputs = <<>> THEN map
    ELSE RunFrom(ProcessBook(map, NoCounters, Head(inputs).book, Head(inputs).ug, {}).map,
                 Tail(inputs))

\* two inputs with one key have both been processed
PairMerged ==
    /\ Len(mgInputs) = 2
    /\ mgStep = 2
    /\ normalizedCandidateKey(mgInputs[1].book) = normalizedCandidateKey(mgInputs[2].book)

\* same kept descriptive fields and same set of source genre ids
SameMerge(m1, m2) ==
    /\ Len(m1) = 1
    /\ Len(m2) = 1
    /\ Descriptive(m1[1][2]) = Descriptive(m2[1][2])
    /\ Range(m1[1][2].sourceGenreIds) = Range(m2[1][2].sourceGenreIds)

\* the two inputs tie on rating and description length without being the same record
FullTie ==
    /\ Same(mgInputs[1].book.averageRating, mgInputs[2].book.averageRating)
    /\ Len(mgInputs[1].book.description) = Len(mgInputs[2].book.description)
    /\ Descriptive(mgInputs[1].book) # Descriptive(mgInputs[2].book)

\* C5 as stated: merging (x, y), merging (y, x) and merging the pair a second
\* time all keep the same descriptive fields and the same source genre ids,
\* whatever the ratings and description lengths.
C5_AsStated ==
    PairMerged =>
        /\ SameMerge(candidateMap, RunFrom(<<>>, <<mgInputs[2], mgInputs[1]>>))
        /\ SameMerge(candidateMap, RunFrom(candidateMap, mgInputs))

\* C5 amended: merging the pair a second time changes nothing, and the set of
\* source genre ids is the same in either order; the kept descriptive fields
\* are the same in either order unless the two tie on rating and description
\* length, and then the candidate processed first is the one kept.
C5_MergeOrder ==
    PairMerged =>
        /\ SameMerge(candidateMap, RunFrom(candidateMap, mgInputs))
        /\ Range(candidateMap[1][2].sourceGenreIds)
              = Range(RunFrom(<<>>, <<mgInputs[2], mgInputs[1]>>)[1][2].sourceGenreIds)
        /\ ~FullTie => SameMerge(candidateMap, RunFrom(<<>>, <<mgInputs[2], mgInputs[1]>>))
        /\ FullTie => Descriptive(candidateMap[1][2]) = Descriptive(mgInputs[1].book)

\* a pair with different ratings and different genres has been merged, the
\* second one replacing the first
C5_Witness ==
    /\ PairMerged
    /\ Greater(mgInputs[2].book.averageRating, mgInputs[1].book.averageRating)
    /\ mgInputs[1].ug # mgInputs[2].ug
    /\ candidateMap[1][2].googleBooksId = mgInputs[2].book.googleBooksId
    /\ counters.dedupedCollisions = 1

\* a full tie has been merged
C5_TieWitness ==
    /\ PairMerged
    /\ FullTie
----------------------------------------------------------------------------
(* Properties of one request *)

\* the maximal runs of non-space characters of the lowercased string, in order
WordsOf(s) ==
    LET l == toLowerCase(s)
        starts == {i \in 1..Len(l) : ~IsSpace(l[i]) /\ (i = 1 \/ IsSpace(l[i - 1]))}
        EndOf(i) == CHOOSE j \in i..Len(l) :
                        /\ \A k \in i..j : ~IsSpace(l[k])
                        /\ (j = Len(l) \/ IsSpace(l[j + 1]))
        ordered == SortAsc(starts)
    IN [n \in 1..Len(ordered) |-> SubSeq(l, ordered[n], EndOf(ordered[n]))]

\* lowercased, with its words separated by single spaces
Collapsed(s) == Join(WordsOf(s), <<" ">>)

\* the text before the first comma
BeforeComma(s) ==
    LET commas == {i \in 1..Len(s) : s[i] = ","}
    IN IF commas = {} THEN s
       ELSE SubSeq(s, 1, (CHOOSE i \in commas : \A j \in commas : i <= j) - 1)

\* title|firstAuthor, else title|unknown-author, else id|externalId
CanonicalKey(rec) ==
    IF Collapsed(rec.title) # <<>> /\ Collapsed(BeforeComma(rec.authors)) # <<>>
    THEN Collapsed(rec.title) \o <<"|">> \o Collapsed(BeforeComma(rec.authors))
    ELSE IF Collapsed(rec.title) # <<>>
    THEN Collapsed(rec.title) \o <<"|">> \o sUnknownAuthor
    ELSE <<"i", "d", "|">> \o rec.googleBooksId

\* C6: after any sequence of per-genre fetches the candidate collection holds
\* no two records with the same canonical key, and each record is stored under
\* its canonical key.
C6_OneRecordPerKey ==
    \A i \in 1..Len(candidateMap) :
        /\ candidateMap[i][1] = CanonicalKey(candidateMap[i][2])
        /\ \A j \in 1..Len(candidateMap) :
              i # j => CanonicalKey(candidateMap[i][2]) # CanonicalKey(candidateMap[j][2])

\* two genres have been fetched, a collision was merged, and the collection
\* holds a record keyed by its id next to records keyed by title
C6_Witness ==
    /\ genreIdx = 2
    /\ counters.dedupedCollisions > 0
    /\ Len(candidateMap) >= 2
    /\ \E i \in 1..Len(candidateMap) : candidateMap[i][2].title = <<>>
    /\ \E i \in 1..Len(candidateMap) : candidateMap[i][2].title # <<>>

\* the genres the store holds for a book
StoredGenres(id) == {g \in 1..Len(GenreTable) : <<id, g>> \in bookGenres}

\* the genres inferred from categories: those with a part whose tokens all
\* occur in one category, less those whose tokens a matched genre with more
\* tokens contains
InferredFrom(categories) ==
    LET M == {g \in Range(AllGenreRows) : \E c \in Range(categories) : PartWithin(g, c)}
        T(g) == WordTokens(g.name)
    IN {a.id : a \in {x \in M : ~\E b \in M : /\ b # x
                                             /\ Cardinality(T(b)) > Cardinality(T(x))
                                             /\ T(x) \subseteq T(b)}}

\* the candidates have just been scored: nothing is persisted yet
JustScored == pc = "persist" /\ persistIdx = 1

\* C7: the effective genre set of a scored candidate is the set the store holds
\* for its external id when that is non-empty, and otherwise the union of its
\* source genre ids and the genre ids inferred from its categories.
C7_EffectiveGenres ==
    JustScored =>
        \A i \in 1..Len(scored) :
            LET c == scored[i].candidate
            IN Range(scored[i].genreIds) =
                  IF StoredGenres(c.googleBooksId) # {} THEN StoredGenres(c.googleBooksId)
                  ELSE Range(c.sourceGenreIds) \cup InferredFrom(c.categories)

\* one scored candidate has stored genres that differ from its inferred ones,
\* another has none stored and a genre inferred from its categories
C7_Witness ==
    /\ JustScored
    /\ \E i \in 1..Len(scored) :
          LET c == scored[i].candidate
          IN /\ StoredGenres(c.googleBooksId) # {}
             /\ Range(c.sourceGenreIds) \cup InferredFrom(c.categories)
                   \notin {{}, StoredGenres(c.googleBooksId)}
    /\ \E i \in 1..Len(scored) :
          LET c == scored[i].candidate
          IN /\ StoredGenres(c.googleBooksId) = {}
             /\ ~(InferredFrom(c.categories) \subseteq Range(c.sourceGenreIds))

preferredGenreIds == {userGenres[k].id : k \in 1..Len(userGenres)}

\* C8: genreScore is 0 exactly when the effective genre set is empty, else
\* 0.6 + 0.4 * |effective /\ preferred| / |effective|; it is 0 or lies in
\* [0.6, 1.0], and is 1.0 exactly when every effective genre is preferred.
C8_GenreScore ==
    \A i \in 1..Len(scored) :
        LET E == Range(scored[i].genreIds)
            s == scored[i].genreScore
        IN /\ s[2] > 0
           /\ (s[1] = 0) <=> (E = {})
           /\ E # {} => Same(s, <<6 * Cardinality(E) + 4 * Cardinality(E \cap preferredGenreIds),
                                  10 * Cardinality(E)>>)
           /\ s[1] = 0 \/ (10 * s[1] >= 6 * s[2] /\ s[1] <= s[2])
           /\ (s[1] = s[2]) <=> (E # {} /\ E \subseteq preferredGenreIds)

\* scored candidates with some and with all of their effective genres preferred
C8_Witness ==
    /\ \E i \in 1..Len(scored) :
          /\ Greater(scored[i].genreScore, <<6, 10>>)
          /\ Greater(<<1, 1>>, scored[i].genreScore)
    /\ \E i \in 1..Len(scored) : Same(scored[i].genreScore, <<1, 1>>)

\* the request has chosen its weights
WeightsChosen == pc \in {"fetch", "score", "persist"} \/ (pc = "sent" /\ excludeGoogleIds # {})

Hundredths(x) == (100 * x[1]) \div x[2]
DecimalsAre(w, g, f, t) ==
    /\ Same(w.genre, <<g, 100>>)
    /\ Same(w.finished, <<f, 100>>)
    /\ Same(w.toRead, <<t, 100>>)

\* weights.genre + weights.finished + weights.toRead as the program evaluates it
SumOfWeights(w) ==
    AddDouble(AddDouble(Literal(Hundredths(w.genre)), Literal(Hundredths(w.finished))),
              Literal(Hundredths(w.toRead)))

\* the distance of the exact sum of the three stored doubles from the sum of
\* their decimals, in units of 2^-56 / 100
StoredSumError(w) ==
    Literal(Hundredths(w.genre)).e + Literal(Hundredths(w.finished)).e
        + Literal(Hundredths(w.toRead)).e

ExactlyOne(x) == x.c = 100 /\ x.e = 0
\* 1 - 2^-53, the double printed 0.9999999999999999
OneUlpBelowOne(x) == x.c = 100 /\ x.e = -800

SelectedWeights ==
    /\ pc \in {"fetch", "score", "persist"} =>
          IF Len(finishedLite) > 0 THEN DecimalsAre(weights, 35, 40, 25)
          ELSE DecimalsAre(weights, 70, 20, 10)
    /\ \A i \in 1..Len(scored) : scored[i].weights = weights

\* C9 as stated: the weights are 0.35/0.40/0.25 with a non-empty finished
\* shelf and 0.70/0.20/0.10 otherwise, the same for every candidate, and they
\* sum to exactly 1.0 in both regimes.
C9_AsStated ==
    /\ SelectedWeights
    /\ pc \in {"fetch", "score", "persist"} => ExactlyOne(SumOfWeights(weights))

\* C9 amended: the same selection; the decimals of either triple sum to 1, and
\* the stored doubles, added in the order genre, finished, toRead, sum to
\* exactly 1.0 with a non-empty finished shelf and to 0.9999999999999999 (one
\* spacing below 1.0) with an empty one, where their exact sum is below 1 too.
C9_Weights ==
    /\ SelectedWeights
    /\ pc \in {"fetch", "score", "persist"} =>
          /\ Hundredths(weights.genre) + Hundredths(weights.finished)
                + Hundredths(weights.toRead) = 100
          /\ IF Len(finishedLite) > 0
             THEN ExactlyOne(SumOfWeights(weights)) /\ StoredSumError(weights) = 0
             ELSE OneUlpBelowOne(SumOfWeights(weights)) /\ StoredSumError(weights) < 0

\* two candidates were scored for a user with an empty finished shelf
C9_Witness ==
    /\ pc = "persist"
    /\ Len(finishedLite) = 0
    /\ Len(scored) >= 2

\* the token set of a candidate and of a shelf book
CandidateTokens(c) ==
    WordTokens(c.title) \cup WordTokens(c.authors) \cup WordTokens(c.description)
        \cup UNION {WordTokens(c.categories[i]) : i \in 1..Len(c.categories)}
ShelfTokens(b) == WordTokens(b.title) \cup WordTokens(b.description)

\* |A /\ B| / |A \/ B|, 0 when either is empty
Jaccard(A, B) ==
    IF A = {} \/ B = {} THEN <<0, 1>>
    ELSE <<Cardinality(A \cap B), Cardinality(A \cup B)>>

\* x is the greatest similarity of c to a book of the shelf, 0 for an empty shelf
IsMaxJaccard(x, c, shelf) ==
    IF shelf = <<>> THEN x[1] = 0
    ELSE /\ \E k \in 1..Len(shelf) : Same(x, Jaccard(CandidateTokens(c), ShelfTokens(shelf[k])))
         /\ \A k \in 1..Len(shelf) :
               ~Greater(Jaccard(CandidateTokens(c), ShelfTokens(shelf[k])), x)

\* a/b + c/d + e/f
Sum3(x, y, z) ==
    <<x[1] * y[2] * z[2] + y[1] * x[2] * z[2] + z[1] * x[2] * y[2], x[2] * y[2] * z[2]>>
Times(x, y) == <<x[1] * y[1], x[2] * y[2]>>

\* Scenario B: an empty finished shelf, one to-read book of similarity 0.5,
\* one effective genre, and it is preferred
ScenarioB(r) ==
    /\ Len(finishedLite) = 0
    /\ Len(toReadLite) = 1
    /\ Same(Jaccard(CandidateTokens(r.candidate), ShelfTokens(toReadLite[1])), <<1, 2>>)
    /\ Cardinality(Range(r.genreIds)) = 1
    /\ Range(r.genreIds) \subseteq preferredGenreIds

\* C10: totalScore = weights.genre * genreScore + weights.finished *
\* finishedScore + weights.toRead * toReadScore, where the two shelf scores are
\* the greatest Jaccard similarity to the finished and to the to-read shelf
\* (0 for an empty shelf); in Scenario B the total is 0.75.
C10_TotalScore ==
    \A i \in 1..Len(scored) :
        LET r == scored[i]
        IN /\ Same(r.score, Sum3(Times(r.weights.genre, r.genreScore),
                                 Times(r.weights.finished, r.finishedScore),
                                 Times(r.weights.toRead, r.toReadScore)))
           /\ IsMaxJaccard(r.finishedScore, r.candidate, finishedLite)
           /\ IsMaxJaccard(r.toReadScore, r.candidate, toReadLite)
           /\ ScenarioB(r) => Same(r.score, <<3, 4>>)

\* a candidate of Scenario B has been scored, next to one that resembles no
\* shelf book
C10_Witness ==
    /\ \E i \in 1..Len(scored) : ScenarioB(scored[i])
    /\ \E i \in 1..Len(scored) : scored[i].toReadScore[1] = 0
----------------------------------------------------------------------------
(* Properties of jaccardSimilarity *)

\* C11: jaccardSimilarity(a, b) is |a \cap b| / |a \cup b| for non-empty sets
\* and 0 when either set is empty; so it is 0 against the empty set, 1 for a
\* non-empty set against itself, and the same with the arguments exchanged.
C11_Jaccard ==
    simPc = "done" =>
        /\ (simA = {} \/ simB = {}) => simScore = <<0, 1>>
        /\ (simA # {} /\ simB # {}) =>
               /\ simScore[1] * Cardinality(simA \cup simB)
                     = Cardinality(simA \cap simB) * simScore[2]
               /\ simScore[2] > 0
        /\ (simA = simB /\ simA # {}) => simScore = <<1, 1>>
        /\ simBack = simScore

\* two different non-empty sets that share a token were compared
C11_Witness ==
    /\ simPc = "done"
    /\ simA # simB
    /\ simA \cap simB # {}
    /\ Cardinality(simA) # Cardinality(simB)
    /\ simScore # <<0, 1>>
    /\ simScore # <<1, 1>>

----------------------------------------------------------------------------
(* Properties of the ranked selection *)

\* the position of an emitted candidate in the aggregator's output
PositionOf(r) == r.candidate.googleBooksId

\* C12: the selection emits min(20, number of candidates) of the candidates,
\* in non-increasing totalScore order; no omitted candidate has a strictly
\* higher totalScore than an emitted one; emitted candidates of equal
\* totalScore are in the order of the aggregator's output.
C12_RankedTop ==
    selPc = "done" =>
        /\ Len(selTop) = (IF Len(selInput) < 20 THEN Len(selInput) ELSE 20)
        /\ \A i \in 1..Len(selTop) : selTop[i] = selInput[PositionOf(selTop[i])]
        /\ \A i, j \in 1..Len(selTop) :
               i < j => /\ PositionOf(selTop[i]) # PositionOf(selTop[j])
                        /\ ~Greater(selTop[j].score, selTop[i].score)
                        /\ Same(selTop[i].score, selTop[j].score)
                              => PositionOf(selTop[i]) < PositionOf(selTop[j])
        /\ \A p \in 1..Len(selInput) :
               selInput[p] \notin Range(selTop) =>
                  \A i \in 1..Len(selTop) : ~Greater(selInput[p].score, selTop[i].score)

\* more candidates than the limit, not in score order, with a tie among the
\* emitted ones and a candidate of lower score left out
C12_Witness ==
    /\ selPc = "done"
    /\ Len(selInput) > 20
    /\ Len(selTop) = 20
    /\ \E i \in 1..19 : Same(selTop[i].score, selTop[i + 1].score)
    /\ \E i \in 1..19 : Greater(selInput[i + 1].score, selInput[i].score)
    /\ \E p \in 1..Len(selInput) :
          /\ selInput[p] \notin Range(selTop)
          /\ Greater(selTop[20].score, selInput[p].score)

----------------------------------------------------------------------------
(* Properties of the limiters *)

\* the lookups in flight in the process
InFlight ==
    activeCount["recommendations.limit"] + activeCount["search.limit"]
        + activeCount["search.googleVolumeLimit"]

\* C13: at every moment at most 5 upstream cover and metadata lookups are in
\* flight in the process, over the recommendation and search handlers alike.
C13_AtMostFiveInFlight == InFlight <= 5

\* the recommendation handler has 5 cover lookups in flight and one waiting,
\* and a cover lookup of the search handler is in flight as well
C13_Witness ==
    /\ activeCount["recommendations.limit"] = 5
    /\ pendingCount["recommendations.limit"] = 1
    /\ activeCount["search.limit"] >= 1

----------------------------------------------------------------------------
(* Properties of the cover lookups *)

\* the lookup of item i failed or found no cover
NoCoverFor(i) ==
    \/ fbResponses[i].threw
    \/ \A k \in 1..Len(fbResponses[i].docs) : fbResponses[i].docs[k].cover_i = 0

\* the items whose lookup found a cover, in the order of the response
RECURSIVE WithCover(_)
WithCover(i) ==
    IF i > Len(fbItems) THEN <<>>
    ELSE (IF NoCoverFor(i) THEN <<>> ELSE <<fbItems[i]>>) \o WithCover(i + 1)

\* C14: a cover lookup that fails (an error, status 429 included) or finds no
\* cover does not make the call fail: its item is dropped, the other items are
\* processed as if it had not been in the response, and every book returned
\* has a non-empty cover URL.
C14_CoverFailureDropsItem ==
    fbPc = "done" =>
        /\ fbResult # Thrown
        /\ \A k \in 1..Len(fbResult.books) : fbResult.books[k].coverUrl # <<>>
        /\ [k \in 1..Len(fbResult.books) |->
               [fbResult.books[k] EXCEPT !.coverUrl = sCover]]
             = fetchBooksFromGoogle(WithCover(1), [i \in 1..Len(WithCover(1)) |-> sCover])
        /\ \A i \in 1..Len(fbItems) :
               NoCoverFor(i) =>
                  \A k \in 1..Len(fbResult.books) :
                     fbResult.books[k].googleBooksId # fbItems[i].id
                        \/ \E j \in 1..Len(fbItems) : j # i /\ fbItems[j].id = fbItems[i].id

\* one lookup was answered 429, and the other item of the response is returned
C14_Witness ==
    /\ fbPc = "done"
    /\ Len(fbItems) = 2
    /\ fbResponses[1].threw /\ fbResponses[1].status = 429
    /\ fbResult # Thrown
    /\ Len(fbResult.books) = 1
    /\ fbResult.books[1].googleBooksId = fbItems[2].id

----------------------------------------------------------------------------
(* Properties of the failure paths of the request *)

\* C15: when the fetch for a preferred genre fails (the step from the fetch
\* loop is not the return of a fetch), the request ends there: status 500, an
\* error body and no list, the loop position and the candidates collected for
\* earlier genres left as they are, no further fetch.
C15_FetchFailureEndsRequest ==
    [][(pc = "fetch" /\ ~FetchGenre) =>
          /\ pc' = "sent"
          /\ status' = 500
          /\ body' = [kind |-> "error", error |-> "Failed to fetch recommendations"]
          /\ UNCHANGED <<fetchVars, scoreVars, storeVars>>]_vars

\* the fetch for the second genre failed after the first had given candidates
C15_Witness ==
    /\ pc = "sent"
    /\ status = 500
    /\ genreIdx = 2
    /\ Len(candidateMap) > 0
    /\ body.kind = "error"

\* the genres the loop over top means to store for the emitted candidate at k
toPersistAt(k) == genreIdsToPersist(topOf(scored)[k], existingGenreIdsByGoogleId, AllGenreRows)

\* the genres of the emitted candidate at k are all stored
StoredAt(k) ==
    \A g \in toPersistAt(k) : <<topOf(scored)[k].candidate.googleBooksId, g>> \in bookGenres

\* C16: every iteration of the persistence loop, a failing one included, goes
\* on to the next emitted candidate, and after the last one the response is
\* the success response with the list computed from the scored candidates,
\* the same whatever the writes did.
C16_PersistFailureIsCaught ==
    [][pc = "persist" =>
          IF persistIdx < Len(topOf(scored))
          THEN pc' = "persist" /\ persistIdx' = persistIdx + 1 /\ status' = 0
          ELSE /\ pc' = "sent"
               /\ status' = 200
               /\ body' = [kind |-> "list", list |-> responseOf(topOf(scored), AllGenreRows)]]_vars

\* the write for the first emitted candidate failed, the one for the second
\* was made, and the list of both was sent
C16_Witness ==
    /\ pc = "sent"
    /\ status = 200
    /\ body.kind = "list"
    /\ Len(body.list) = 2
    /\ ~StoredAt(1)
    /\ StoredAt(2)
    /\ toPersistAt(2) # {}

----------------------------------------------------------------------------
(* Properties of the persistence step *)

\* the genre ids stored for a googleBooksId in the two tables
storedGenres(tables, googleBooksId) ==
    {tables.bookGenres[i].genreId :
        i \in {j \in 1..Len(tables.bookGenres) :
                  bookIdOf(tables.books, googleBooksId) # 0
                     /\ tables.bookGenres[j].bookId = bookIdOf(tables.books, googleBooksId)}}

psTables == [books |-> psBooks, bookGenres |-> psBookGenres]

\* C17: after a successful iteration with a non-empty genreIdsToPersist there
\* is exactly one Book row of the external id, the genres stored for it are
\* the previous ones together with genreIdsToPersist, no (book, genre) pair is
\* stored twice, and the rows of other books are as before; the iteration run
\* again leaves both tables as they are; with an empty genreIdsToPersist both
\* tables stay as they were.
C17_PersistStep ==
    psPc \in {"once", "twice"} =>
        /\ psToPersist # {} =>
              /\ Cardinality({i \in 1..Len(psBooks) :
                                 psBooks[i].googleBooksId = psGoogleBooksId}) = 1
              /\ storedGenres(psTables, psGoogleBooksId)
                    = storedGenres(psBefore, psGoogleBooksId) \cup psToPersist
              /\ \A i, j \in 1..Len(psBookGenres) :
                    i # j => psBookGenres[i] # psBookGenres[j]
              /\ \A g \in PersistIds \ {psGoogleBooksId} :
                    storedGenres(psTables, g) = storedGenres(psBefore, g)
        /\ psToPersist = {} => psTables = psBefore
        /\ psPc = "twice" => psTables = psOnce

\* the book had a row and one of the genres to persist, got another one, and
\* the iteration was run a second time
C17_Witness ==
    /\ psPc = "twice"
    /\ bookIdOf(psBefore.books, psGoogleBooksId) # 0
    /\ storedGenres(psBefore, psGoogleBooksId) \cap psToPersist # {}
    /\ psToPersist \ storedGenres(psBefore, psGoogleBooksId) # {}
    /\ storedGenres(psBefore, psGoogleBooksId) \ psToPersist # {}

----------------------------------------------------------------------------
(* Properties of the user id check *)

----------------------------------------------------------------------------
(* Properties of the genre ids of the response *)

\* the genres the store held for a book when the candidates were scored
GenresAtScoring(id) ==
    IF \E i \in 1..Len(existingGenreIdsByGoogleId) : existingGenreIdsByGoogleId[i][1] = id
    THEN existingGenreIdsByGoogleId[
             CHOOSE i \in 1..Len(existingGenreIdsByGoogleId) :
                 existingGenreIdsByGoogleId[i][1] = id][2]
    ELSE {}

\* the effective genre set of the emitted candidate at k
EffectiveAt(k) ==
    IF GenresAtScoring(topOf(scored)[k].candidate.googleBooksId) # {}
    THEN GenresAtScoring(topOf(scored)[k].candidate.googleBooksId)
    ELSE Range(topOf(scored)[k].candidate.sourceGenreIds)
            \cup InferredFrom(topOf(scored)[k].candidate.categories)

\* the full token set of genre b strictly contains that of genre a
StrictlyWithin(a, b) ==
    /\ WordTokens(GenreTable[a]) \subseteq WordTokens(GenreTable[b])
    /\ WordTokens(GenreTable[a]) # WordTokens(GenreTable[b])

\* the list is the set, each id once, in ascending order
AscendingListOf(list, set) ==
    /\ Range(list) = set
    /\ \A i, j \in 1..Len(list) : i < j => list[i] < list[j]

\* C19 as stated: every emitted genre id list is the candidate's effective
\* genre set, ascending and without duplicates, and holds no genre together
\* with another listed genre whose full token set strictly contains its own.
C19_AsStated ==
    ListSent =>
        \A k \in 1..Len(body.list) :
            /\ AscendingListOf(body.list[k].sourceGenreIds, EffectiveAt(k))
            /\ \A a, b \in Range(body.list[k].sourceGenreIds) : ~StrictlyWithin(a, b)

\* C19, amended: every emitted genre id list is the candidate's effective
\* genre set, ascending and without duplicates; only the genres inferred from
\* the categories are pruned among themselves, so a stored genre or a source
\* genre can be listed with a genre whose token set strictly contains its own.
C19_EmittedGenres ==
    ListSent =>
        \A k \in 1..Len(body.list) :
            /\ AscendingListOf(body.list[k].sourceGenreIds, EffectiveAt(k))
            /\ \A a, b \in InferredFrom(topOf(scored)[k].candidate.categories) :
                  ~StrictlyWithin(a, b)
            /\ \A a, b \in Range(body.list[k].sourceGenreIds) :
                  StrictlyWithin(a, b) =>
                     \/ GenresAtScoring(topOf(scored)[k].candidate.googleBooksId) # {}
                     \/ a \in Range(topOf(scored)[k].candidate.sourceGenreIds)
                     \/ b \in Range(topOf(scored)[k].candidate.sourceGenreIds)

\* a book without stored genres is emitted with its source genre and a genre
\* inferred from its categories whose tokens strictly contain the source genre's
C19_Witness ==
    /\ ListSent
    /\ \E k \in 1..Len(body.list) :
          /\ GenresAtScoring(topOf(scored)[k].candidate.googleBooksId) = {}
          /\ \E a \in Range(topOf(scored)[k].candidate.sourceGenreIds) :
                \E b \in InferredFrom(topOf(scored)[k].candidate.categories) :
                   /\ StrictlyWithin(a, b)
                   /\ a \in Range(body.list[k].sourceGenreIds)
                   /\ b \in Range(body.list[k].sourceGenreIds)

----------------------------------------------------------------------------
(* Properties of the search response *)

\* the list of search results has been sent
SearchListSent == srPc = "sent" /\ srStatus = 200 /\ srBody.kind = "list"

\* title and authors, both in lower case
LowerTitleAuthor(b) == <<toLowerCase(b.title), toLowerCase(b.authors)>>

\* the first fetched book with the title and authors of e
FirstFetched(e) ==
    srFiltered[CHOOSE i \in 1..Len(srFiltered) :
                  /\ LowerTitleAuthor(srFiltered[i]) = LowerTitleAuthor(e)
                  /\ \A j \in 1..(i - 1) :
                        LowerTitleAuthor(srFiltered[j]) # LowerTitleAuthor(e)]

\* a comes before b by title, then by authors
TitleThenAuthor(a, b) ==
    \/ localeCompare(a.title, b.title) < 0
    \/ localeCompare(a.title, b.title) = 0 /\ localeCompare(a.authors, b.authors) <= 0

\* the ids of the genres matched from categories
MatchedIds(categories) ==
    [i \in 1..Len(matchGenresFromCategories(categories, AllGenreRows)) |->
        matchGenresFromCategories(categories, AllGenreRows)[i].id]

\* what the list does satisfy, with the key of search.ts: no two entries with
\* the same lower-cased title and authors, and one entry for each such key
\* among the fetched books, which is the first fetched book of that key; it is
\* ordered by title, then by authors; and the genre ids of an entry are the
\* associations the store holds for its external id when it holds any,
\* otherwise the genres matched from the entry's categories.
SearchListByLowerKey ==
    SearchListSent =>
        /\ \A i, j \in 1..Len(srBody.list) :
              i # j => LowerTitleAuthor(srBody.list[i]) # LowerTitleAuthor(srBody.list[j])
        /\ {LowerTitleAuthor(srBody.list[i]) : i \in 1..Len(srBody.list)}
              = {LowerTitleAuthor(srFiltered[i]) : i \in 1..Len(srFiltered)}
        /\ \A i \in 1..Len(srBody.list) :
              [srBody.list[i] EXCEPT
                  !.id = 0,
                  !.sourceGenreIds = FirstFetched(srBody.list[i]).sourceGenreIds,
                  !.sourceGenreNames = FirstFetched(srBody.list[i]).sourceGenreNames]
                 = FirstFetched(srBody.list[i])
        /\ \A i, j \in 1..Len(srBody.list) :
              i < j => TitleThenAuthor(srBody.list[i], srBody.list[j])
        /\ \A i \in 1..Len(srBody.list) :
              IF genreIdsOf(srBody.list[i].googleBooksId) # {}
              THEN /\ Range(srBody.list[i].sourceGenreIds)
                        = genreIdsOf(srBody.list[i].googleBooksId)
                   /\ Len(srBody.list[i].sourceGenreIds)
                        = Cardinality(genreIdsOf(srBody.list[i].googleBooksId))
              ELSE srBody.list[i].sourceGenreIds = MatchedIds(srBody.list[i].categories)

\* two fetched books differed in the case of the title only and the first was
\* kept, the list has two entries, one with the genres of the store, which
\* are not those matched from its categories, one with matched genres
C20_Witness ==
    /\ SearchListSent
    /\ Len(srBody.list) = 2
    /\ \E i, j \in 1..Len(srFiltered) :
          /\ i < j
          /\ LowerTitleAuthor(srFiltered[i]) = LowerTitleAuthor(srFiltered[j])
          /\ srFiltered[i].title # srFiltered[j].title
    /\ \E i \in 1..Len(srBody.list) :
          /\ genreIdsOf(srBody.list[i].googleBooksId) # {}
          /\ Range(MatchedIds(srBody.list[i].categories))
                # genreIdsOf(srBody.list[i].googleBooksId)
    /\ \E i \in 1..Len(srBody.list) :
          /\ genreIdsOf(srBody.list[i].googleBooksId) = {}
          /\ srBody.list[i].sourceGenreIds # <<>>

\* C20: the search result list never holds two entries with the same
\* normalized title+author key (the canonical key: lower case, white space
\* collapsed, title|first author), the first fetched occurrence is the one
\* kept, the list is ordered by title and then by author, and the genre ids of
\* an entry are the store's associations for its external id when any exist,
\* otherwise the genres matched from its categories.
C20_SearchList ==
    /\ SearchListByLowerKey
    /\ SearchListSent =>
          \A i, j \in 1..Len(srBody.list) :
              i # j => CanonicalKey(srBody.list[i]) # CanonicalKey(srBody.list[j])

----------------------------------------------------------------------------
(* GET /api/recommendations/fetch/:userId, the round-robin version of
   recommendations.ts *)

\* while (finalRecommendations.length < 20 && ...)
RoundRobinLimit == 20

\* the most books one query returns in the model
MaxPool == 11
\* the most preferred genres of the user of the round-robin request
MaxRotation == 3

rrDigits(n) ==
    IF n < 10 THEN <<ToString(n)>> ELSE <<ToString(n \div 10), ToString(n % 10)>>
rrId(n) == <<"r">> \o rrDigits(n)
\* a book as fetchBooksFromGoogle returns it; the selection reads its
\* googleBooksId alone
rrBook(n) == [googleBooksId |-> rrId(n), title |-> <<"t">> \o rrDigits(n)]
rrRange(a, n) == [i \in 1..n |-> rrBook(a + i - 1)]

\* what the metadata source answers to one query subject:<genre>
RawLists ==
    {<<>>,
     <<rrBook(3)>>,
     <<rrBook(1), rrBook(3), rrBook(3), rrBook(4)>>,
     <<rrBook(2), rrBook(5)>>,
     rrRange(6, MaxPool),
     rrRange(12, MaxPool)}

\* the loop over rawBooks: a book is skipped when filtered has its
\* googleBooksId, and when it has a Book row with a UserBook row of the user
RECURSIVE filterPool(_, _, _, _)
filterPool(filtered, rawBooks, books, seenIds) ==
    IF rawBooks = <<>> THEN filtered
    ELSE filterPool(
             IF \E i \in 1..Len(filtered) :
                    filtered[i].googleBooksId = Head(rawBooks).googleBooksId
             THEN filtered
             ELSE IF Head(rawBooks).googleBooksId \in books
                     /\ Head(rawBooks).googleBooksId \in seenIds
             THEN filtered
             ELSE Append(filtered, Head(rawBooks)),
             Tail(rawBooks), books, seenIds)

\* genreIds.splice(genreIndex, 1)
splice(ids, index) ==
    [i \in 1..(Len(ids) - 1) |-> IF i <= index THEN ids[i] ELSE ids[i + 1]]

\* const userId = parseInt(req.params.userId); if (!userId) return 400
RRArrive ==
    /\ rrPc = "idle"
    /\ \E param \in UserIdParams :
          IF parseInt(param) = NaN \/ parseInt(param) = 0
          THEN /\ rrPc' = "sent"
               /\ rrStatus' = 400
               /\ rrBody' = [kind |-> "error", error |-> "Invalid userId"]
          ELSE /\ rrPc' = "genres"
               /\ UNCHANGED <<rrStatus, rrBody>>
    /\ UNCHANGED <<matchVars, mergeVars, storeVars, reqVars, simVars, selVars, limVars,
                   fbVars, psVars, srVars, shVars, msVars, dvVars, twVars, rrUserGenres, rrPoolIdx, genreBookPool,
                   rrGenreIds, genreIndex, finalRecommendations, rrPools, rrStart,
                   rrPickedFrom>>

\* prisma.userGenre.findMany resolves
RRReadUserGenres ==
    /\ rrPc = "genres"
    /\ rrUserGenres' = userGenreRows
    /\ IF Len(userGenreRows) = 0
       THEN /\ rrPc' = "sent"
            /\ rrStatus' = 200
            /\ rrBody' = [kind |-> "message", message |-> "User has no selected genres"]
       ELSE /\ rrPc' = "pools"
            /\ UNCHANGED <<rrStatus, rrBody>>
    /\ UNCHANGED <<matchVars, mergeVars, storeVars, reqVars, simVars, selVars, limVars,
                   fbVars, psVars, srVars, shVars, msVars, dvVars, twVars, rrPoolIdx, genreBookPool, rrGenreIds,
                   genreIndex, finalRecommendations, rrPools, rrStart, rrPickedFrom>>

\* one iteration of the loop over userGenres: fetchBooksFromGoogle resolves
\* with rawBooks and the pool of the genre is filled
RRFetchGenre ==
    /\ rrPc = "pools"
    /\ rrPoolIdx < Len(rrUserGenres)
    /\ \E rawBooks \in RawLists :
          genreBookPool' = MapSet(genreBookPool, rrUserGenres[rrPoolIdx + 1],
                                  filterPool(<<>>, rawBooks, bookIds, userBooks))
    /\ rrPoolIdx' = rrPoolIdx + 1
    /\ UNCHANGED <<matchVars, mergeVars, storeVars, reqVars, simVars, selVars, limVars,
                   fbVars, psVars, srVars, shVars, msVars, dvVars, twVars, rrPc, rrUserGenres, rrGenreIds,
                   genreIndex, finalRecommendations, rrStatus, rrBody, rrPools, rrStart,
                   rrPickedFrom>>

\* fetchBooksFromGoogle rejects: the catch block answers 500
RRFetchFails ==
    /\ rrPc = "pools"
    /\ rrPoolIdx < Len(rrUserGenres)
    /\ rrPc' = "sent"
    /\ rrStatus' = 500
    /\ rrBody' = [kind |-> "error", error |-> "Failed to fetch recommendations"]
    /\ UNCHANGED <<matchVars, mergeVars, storeVars, reqVars, simVars, selVars, limVars,
                   fbVars, psVars, srVars, shVars, msVars, dvVars, twVars, rrUserGenres, rrPoolIdx, genreBookPool,
                   rrGenreIds, genreIndex, finalRecommendations, rrPools, rrStart,
                   rrPickedFrom>>

\* const genreIds = userGenres.map(...);
\* let genreIndex = Math.floor(Math.random() * genreIds.length)
RRStartSelection ==
    /\ rrPc = "pools"
    /\ rrPoolIdx = Len(rrUserGenres)
    /\ rrPc' = "loop"
    /\ rrGenreIds' = rrUserGenres
    /\ \E r \in 0..(Len(rrUserGenres) - 1) :
          /\ genreIndex' = r
          /\ rrStart' = r
    /\ finalRecommendations' = <<>>
    /\ rrPools' = genreBookPool
    /\ rrPickedFrom' = <<>>
    /\ UNCHANGED <<matchVars, mergeVars, storeVars, reqVars, simVars, selVars, limVars,
                   fbVars, psVars, srVars, shVars, msVars, dvVars, twVars, rrUserGenres, rrPoolIdx, genreBookPool,
                   rrStatus, rrBody>>

\* a pool that keeps its head
shiftedKeepsHead(pool) == pool

\* the pool after if (pool.length > 0) finalRecommendations.push(pool.shift())
shifted(pool) == IF Len(pool) > 0 THEN Tail(pool) ELSE pool

\* an index that advances after a removal too
nextGenreIndexAdvancing(ids, index, pool) ==
    IF Len(pool) = 0
    THEN IF Len(ids) = 1 THEN index ELSE (index + 1) % (Len(ids) - 1)
    ELSE (index + 1) % Len(ids)

\* genreIndex after the if that follows the push, ids being genreIds before it
nextGenreIndex(ids, index, pool) ==
    IF Len(pool) = 0
    THEN IF Len(ids) = 1 THEN index ELSE index % (Len(ids) - 1)
    ELSE (index + 1) % Len(ids)

\* one iteration of while (finalRecommendations.length < 20 && genreIds.length > 0)
RRIterate ==
    /\ rrPc = "loop"
    /\ Len(finalRecommendations) < RoundRobinLimit
    /\ Len(rrGenreIds) > 0
    /\ finalRecommendations' =
          IF Len(MapGet(genreBookPool, rrGenreIds[genreIndex + 1])) > 0
          THEN Append(finalRecommendations,
                      Head(MapGet(genreBookPool, rrGenreIds[genreIndex + 1])))
          ELSE finalRecommendations
    /\ rrPickedFrom' =
          IF Len(MapGet(genreBookPool, rrGenreIds[genreIndex + 1])) > 0
          THEN Append(rrPickedFrom, rrGenreIds[genreIndex + 1])
          ELSE rrPickedFrom
    /\ genreBookPool' = MapSet(genreBookPool, rrGenreIds[genreIndex + 1],
                               shifted(MapGet(genreBookPool, rrGenreIds[genreIndex + 1])))
    /\ rrGenreIds' =
          IF Len(shifted(MapGet(genreBookPool, rrGenreIds[genreIndex + 1]))) = 0
          THEN splice(rrGenreIds, genreIndex)
          ELSE rrGenreIds
    /\ genreIndex' = nextGenreIndex(rrGenreIds, genreIndex,
                         shifted(MapGet(genreBookPool, rrGenreIds[genreIndex + 1])))
    /\ UNCHANGED <<matchVars, mergeVars, storeVars, reqVars, simVars, selVars, limVars,
                   fbVars, psVars, srVars, shVars, msVars, dvVars, twVars, rrPc, rrUserGenres, rrPoolIdx,
                   rrStatus, rrBody, rrPools, rrStart>>

\* the loop is left: res.status(200).json(finalRecommendations)
RRRespond ==
    /\ rrPc = "loop"
    /\ ~(Len(finalRecommendations) < RoundRobinLimit /\ Len(rrGenreIds) > 0)
    /\ rrPc' = "sent"
    /\ rrStatus' = 200
    /\ rrBody' = [kind |-> "list", list |-> finalRecommendations]
    /\ UNCHANGED <<matchVars, mergeVars, storeVars, reqVars, simVars, selVars, limVars,
                   fbVars, psVars, srVars, shVars, msVars, dvVars, twVars, rrUserGenres, rrPoolIdx, genreBookPool,
                   rrGenreIds, genreIndex, finalRecommendations, rrPools, rrStart,
                   rrPickedFrom>>

\* the preferred genres of the user of the round-robin request
RotationLists == {<<>>, <<1>>, <<1, 2>>, <<2, 1, 3>>}

\* the user has marked book 1 seen and may have put book 2 on the To Read
\* shelf; book 4 has a Book row of another user's making
InitRoundRobin ==
    /\ MatchOff
    /\ MergeOff
    /\ NoRequest
    /\ SimOff
    /\ SelOff
    /\ LimitersIdle
    /\ FetchOff
    /\ PersistOff
    /\ SearchOff
    /\ ShelvesOff
    /\ MaxSimOff
    /\ DeriveOff
    /\ NoPrevious
    /\ upstream = {}
    /\ userGenreRows \in RotationLists
    /\ shelfBooks \in {<<>>, <<ShelfBookRow("To Read", rrBook(2) @@ [description |-> <<>>])>>}
    /\ userBooks = {rrId(1)}
    /\ bookIds = {rrId(1), rrId(2), rrId(4)}
    /\ bookGenres = {}
    /\ rrPc = "idle"
    /\ rrUserGenres = <<>>
    /\ rrPoolIdx = 0
    /\ genreBookPool = <<>>
    /\ rrGenreIds = <<>>
    /\ genreIndex = 0
    /\ finalRecommendations = <<>>
    /\ rrStatus = 0
    /\ rrBody = NoBody
    /\ rrPools = <<>>
    /\ rrStart = 0
    /\ rrPickedFrom = <<>>

NextRoundRobin ==
    \/ RRArrive
    \/ RRReadUserGenres
    \/ RRFetchGenre
    \/ RRFetchFails
    \/ RRStartSelection
    \/ RRIterate
    \/ RRRespond

SpecRoundRobin == InitRoundRobin /\ [][NextRoundRobin]_vars

----------------------------------------------------------------------------
(* Properties of the round-robin request *)

RRListSent == rrPc = "sent" /\ rrStatus = 200 /\ rrBody.kind = "list"
RRSelecting == rrPc = "loop" \/ RRListSent

\* the googleBooksIds on the shelves of the user
ShelvedIds == {shelfBooks[i].googleBooksId : i \in 1..Len(shelfBooks)}

\* C21: under the round-robin policy no emitted book is one the user has
\* marked seen or has on a shelf, and no pool holds such a book when the
\* selection starts
C21_NoSeenOrShelvedEmitted ==
    /\ RRListSent =>
          \A i \in 1..Len(rrBody.list) :
              rrBody.list[i].googleBooksId \notin userBooks \cup ShelvedIds
    /\ RRSelecting =>
          \A p \in 1..Len(rrPools), i \in 1..MaxPool :
              i <= Len(rrPools[p][2]) =>
                  rrPools[p][2][i].googleBooksId \notin userBooks \cup ShelvedIds

\* the part that holds: no emitted book is one the user has marked seen
RRNoSeenEmitted ==
    RRListSent =>
        \A i \in 1..Len(rrBody.list) : rrBody.list[i].googleBooksId \notin userBooks

\* a list is sent that holds a book of the To Read shelf
C21_Witness ==
    /\ RRListSent
    /\ \E i \in 1..Len(rrBody.list) : rrBody.list[i].googleBooksId \in ShelvedIds

\* how many of the picks before pick k were taken from the pool of genre g
RECURSIVE TakenBefore(_, _)
TakenBefore(g, k) ==
    IF k <= 1 THEN 0
    ELSE TakenBefore(g, k - 1) + (IF rrPickedFrom[k - 1] = g THEN 1 ELSE 0)

\* the pool of genre g before pick k
PoolBefore(g, k) ==
    SubSeq(MapGet(rrPools, g), TakenBefore(g, k) + 1, Len(MapGet(rrPools, g)))

\* the genres whose pool holds a book before pick k
NonEmptyBefore(k) == {g \in Range(rrUserGenres) : PoolBefore(g, k) # <<>>}

\* the position in the preferred-genre order that is o places after p, circularly
CircularPos(p, o) == ((p - 1 + o) % Len(rrUserGenres)) + 1

\* the first genre with a book in its pool before pick k, at position p of the
\* preferred genres or circularly after it
FirstNonEmptyFrom(p, k) ==
    rrUserGenres[CircularPos(p,
        CHOOSE o \in 0..(Len(rrUserGenres) - 1) :
            /\ PoolBefore(rrUserGenres[CircularPos(p, o)], k) # <<>>
            /\ \A q \in 0..(o - 1) : PoolBefore(rrUserGenres[CircularPos(p, q)], k) = <<>>)]

\* the genre pick k is due from: the starting genre or the first after it with
\* a book, then the first with a book after the genre of the pick before
GenreDue(k) ==
    IF k = 1 THEN FirstNonEmptyFrom(rrStart + 1, 1)
    ELSE FirstNonEmptyFrom(IndexIn(rrUserGenres, rrPickedFrom[k - 1]) + 1, k)

\* C25: for every starting index the picks visit the genres circularly in
\* preferred-genre order: each pick is the head of the pool of the first genre
\* at or after the one due that still has a book, no genre is skipped when the
\* one before it is exhausted, and while two genres have books two consecutive
\* picks are of different genres
C25_CircularPicks ==
    RRSelecting =>
        \A k \in 1..Len(finalRecommendations) :
            /\ rrPickedFrom[k] = GenreDue(k)
            /\ finalRecommendations[k] = Head(PoolBefore(rrPickedFrom[k], k))
            /\ (k > 1 /\ Cardinality(NonEmptyBefore(k)) >= 2)
                  => rrPickedFrom[k] # rrPickedFrom[k - 1]

\* three genres, the last drawn as the start; a pick exhausts its pool while
\* two other genres have books, and the selection goes on
C25_Witness ==
    /\ RRListSent
    /\ Len(rrUserGenres) = MaxRotation
    /\ rrStart = MaxRotation - 1
    /\ \E k \in 1..(Len(finalRecommendations) - 1) :
          /\ PoolBefore(rrPickedFrom[k], k + 1) = <<>>
          /\ Cardinality(NonEmptyBefore(k + 1)) >= 2

RECURSIVE SumLen(_)
SumLen(m) == IF m = <<>> THEN 0 ELSE Len(Head(m)[2]) + SumLen(Tail(m))

Min(a, b) == IF a < b THEN a ELSE b

\* what an iteration of the loop makes smaller: the books left in the pools
\* and the genres left in the rotation
LoopVariant == SumLen(genreBookPool) + Len(rrGenreIds)

\* C26: the selection loop terminates for every starting index and all pool
\* sizes: every iteration makes the books and genres left fewer, the loop is
\* left when no iteration is possible, and the list then holds
\* min(20, books of all pools) books
C26_LoopEnds ==
    /\ [][RRIterate => LoopVariant' < LoopVariant]_vars
    /\ [](rrPc = "loop" => (ENABLED RRIterate \/ ENABLED RRRespond))
    /\ [](RRListSent => Len(rrBody.list) = Min(RoundRobinLimit, SumLen(rrPools)))

\* the pools held more than 20 books and one of them was empty
C26_Witness ==
    /\ RRListSent
    /\ SumLen(rrPools) > RoundRobinLimit
    /\ Len(rrBody.list) = RoundRobinLimit
    /\ \E p \in 1..Len(rrPools) : rrPools[p][2] = <<>>

\* the pools held fewer than 20 books
C26_WitnessShort ==
    /\ RRListSent
    /\ SumLen(rrPools) < RoundRobinLimit
    /\ SumLen(rrPools) > 0
    /\ rrStart > 0

\* C30: the list of the round-robin selector never holds the same
\* googleBooksId twice, also when two genres' queries return the same book
C30_NoIdTwice ==
    RRSelecting =>
        \A i, j \in 1..Len(finalRecommendations) :
            i # j => finalRecommendations[i].googleBooksId
                         # finalRecommendations[j].googleBooksId

\* the part that holds: the books taken from one pool differ
RRNoIdTwiceInPool ==
    RRSelecting =>
        \A i, j \in 1..Len(finalRecommendations) :
            (i # j /\ rrPickedFrom[i] = rrPickedFrom[j])
                => finalRecommendations[i].googleBooksId
                       # finalRecommendations[j].googleBooksId

\* two pools held the same book and both copies were emitted
C30_Witness ==
    /\ RRListSent
    /\ \E i, j \in 1..Len(rrBody.list) :
          /\ i # j
          /\ rrBody.list[i].googleBooksId = rrBody.list[j].googleBooksId
          /\ rrPickedFrom[i] # rrPickedFrom[j]

----------------------------------------------------------------------------
(* The requests of shelves.ts, one action per step between which another
   request of the same user can run *)

\* the most requests that have passed their check and not yet written
MaxInflight == 3

\* the rows of the books a client of the model names
ClientRows == {i \in 1..Len(shelfBooks) :
                  \E b \in ClientBooks : shelfBooks[i].googleBooksId = b.googleBooksId}

shelfVarsUnchanged ==
    UNCHANGED <<matchVars, mergeVars, reqVars, simVars, selVars, limVars, fbVars, psVars,
                srVars, rrVars, msVars, dvVars, twVars, upstream, userGenreRows, userBooks, bookGenres>>

\* add-to-to-read up to its check: the book is found or created, and the
\* request is refused when the Finished shelf has the book
ToReadChecks ==
    \E b \in ClientBooks :
        /\ Cardinality(inflight) < MaxInflight
        /\ bookIds' = bookIds \cup {b.googleBooksId}
        /\ inflight' = IF hasRow(shelfBooks, "Finished", b.googleBooksId) THEN inflight
                       ELSE inflight \cup {[op |-> "add-to-to-read", books |-> <<b>>]}
        /\ UNCHANGED shelfBooks
        /\ shelfVarsUnchanged

\* add-to-to-read from its upsert on
ToReadWrites ==
    \E r \in inflight :
        /\ r.op = "add-to-to-read"
        /\ shelfBooks' = upsertRow(shelfBooks, "To Read", r.books[1])
        /\ inflight' = inflight \ {r}
        /\ UNCHANGED bookIds
        /\ shelfVarsUnchanged

\* add-to-finished up to its check
FinishedChecks ==
    \E b \in ClientBooks :
        /\ Cardinality(inflight) < MaxInflight
        /\ bookIds' = bookIds \cup {b.googleBooksId}
        /\ inflight' = IF hasRow(shelfBooks, "To Read", b.googleBooksId) THEN inflight
                       ELSE inflight \cup {[op |-> "add-to-finished", books |-> <<b>>]}
        /\ UNCHANGED shelfBooks
        /\ shelfVarsUnchanged

\* add-to-finished from its upsert on
FinishedWrites ==
    \E r \in inflight :
        /\ r.op = "add-to-finished"
        /\ shelfBooks' = upsertRow(shelfBooks, "Finished", r.books[1])
        /\ inflight' = inflight \ {r}
        /\ UNCHANGED bookIds
        /\ shelfVarsUnchanged

\* add-to-favorites up to its check of the count
FavoritesChecks ==
    \E booksToAdd \in {<<b>> : b \in ClientBooks} :
        /\ Cardinality(inflight) < MaxInflight
        /\ inflight' =
              IF Len(shelfOf(shelfBooks, "Favorites")) + Len(booksToAdd) > FavoritesLimit
              THEN inflight
              ELSE inflight \cup {[op |-> "add-to-favorites", books |-> booksToAdd]}
        /\ UNCHANGED <<shelfBooks, bookIds>>
        /\ shelfVarsUnchanged

\* add-to-favorites from its loop over booksToAdd on
FavoritesWrites ==
    \E r \in inflight :
        /\ r.op = "add-to-favorites"
        /\ bookIds' = bookIds \cup
               ({r.books[i].googleBooksId : i \in 1..Len(r.books)} \ {<<>>})
        /\ shelfBooks' = upsertAll(shelfBooks, "Favorites", r.books)
        /\ inflight' = inflight \ {r}
        /\ shelfVarsUnchanged

\* remove-from-favorites
FavoritesRemoves ==
    \E b \in ClientBooks :
        /\ hasRow(shelfBooks, "Favorites", b.googleBooksId)
        /\ shelfBooks' = SelectSeq(shelfBooks,
              LAMBDA r : ~(r.shelf = "Favorites" /\ r.googleBooksId = b.googleBooksId))
        /\ UNCHANGED <<bookIds, inflight>>
        /\ shelfVarsUnchanged

\* delete-books with the ids of rows of the client's books: one deleteMany
DeleteClientBooks ==
    \E gone \in SUBSET {shelfBooks[i] : i \in ClientRows} :
        /\ gone # {}
        /\ shelfBooks' = SelectSeq(shelfBooks, LAMBDA r : r \notin gone)
        /\ UNCHANGED <<bookIds, inflight>>
        /\ shelfVarsUnchanged

\* move-book with the id of a row of the client's books, at its update: the
\* row found by id changes shelf whatever the target shelf holds of other
\* books; the update fails when the target shelf has a row of the same book
MoveClientBook ==
    \E i \in ClientRows, targetShelfName \in ShelfNames :
        /\ targetShelfName # shelfBooks[i].shelf
        /\ ~hasRow(shelfBooks, targetShelfName, shelfBooks[i].googleBooksId)
        /\ shelfBooks' = [shelfBooks EXCEPT ![i].shelf = targetShelfName]
        /\ UNCHANGED <<bookIds, inflight>>
        /\ shelfVarsUnchanged

\* n books of the Favorites shelf that no request of the model names
FavoriteRows(n) ==
    [i \in 1..n |-> ShelfBookRow("Favorites", rrBook(i) @@ [description |-> <<>>])]

\* a user with no favorites, with one fewer than the limit, or with the limit
InitShelves ==
    /\ MatchOff
    /\ MergeOff
    /\ NoRequest
    /\ SimOff
    /\ SelOff
    /\ LimitersIdle
    /\ FetchOff
    /\ PersistOff
    /\ SearchOff
    /\ RoundRobinOff
    /\ MaxSimOff
    /\ DeriveOff
    /\ NoPrevious
    /\ upstream = {}
    /\ userGenreRows = <<>>
    /\ \E n \in {0, FavoritesLimit - 1, FavoritesLimit} :
          /\ shelfBooks = FavoriteRows(n)
          /\ bookIds = {rrId(i) : i \in 1..n}
    /\ userBooks = {}
    /\ bookGenres = {}
    /\ inflight = {}

NextShelves ==
    \/ ToReadChecks
    \/ ToReadWrites
    \/ FinishedChecks
    \/ FinishedWrites
    \/ FavoritesChecks
    \/ FavoritesWrites
    \/ FavoritesRemoves
    \/ DeleteClientBooks
    \/ MoveClientBook

SpecShelves == InitShelves /\ [][NextShelves]_vars

----------------------------------------------------------------------------
(* Properties of the shelf requests *)

\* C22: after any sequence of add-to-to-read, add-to-finished, move-book and
\* delete-books requests of a user, concurrent ones included, no book is on
\* both the To Read shelf and the Finished shelf of the user
C22_NeverOnBoth ==
    \A i, j \in 1..Len(shelfBooks) :
        ~(/\ shelfBooks[i].shelf = "To Read"
          /\ shelfBooks[j].shelf = "Finished"
          /\ shelfBooks[i].googleBooksId = shelfBooks[j].googleBooksId)

\* a book is on both shelves and no request is under way
C22_Witness ==
    /\ inflight = {}
    /\ hasRow(shelfBooks, "To Read", rowDune.googleBooksId)
    /\ hasRow(shelfBooks, "Finished", rowDune.googleBooksId)

\* C23: after any sequence of add-to-favorites, remove-from-favorites,
\* move-book and delete-books requests the Favorites shelf holds at most 10
\* books, and an add-to-favorites request that would exceed 10 is refused and
\* leaves the shelf as it was
C23_AtMostTenFavorites ==
    /\ [](Len(shelfOf(shelfBooks, "Favorites")) <= FavoritesLimit)
    /\ [][(FavoritesChecks /\ Len(shelfOf(shelfBooks, "Favorites")) + 1 > FavoritesLimit)
             => (shelfBooks' = shelfBooks /\ inflight' = inflight)]_vars

\* the part that holds: a request that would exceed the limit is refused
FavoritesRefusedWhole ==
    [][(FavoritesChecks /\ Len(shelfOf(shelfBooks, "Favorites")) + 1 > FavoritesLimit)
          => (shelfBooks' = shelfBooks /\ inflight' = inflight)]_vars

\* the Favorites shelf holds eleven books
C23_Witness ==
    /\ inflight = {}
    /\ Len(shelfOf(shelfBooks, "Favorites")) = FavoritesLimit + 1

----------------------------------------------------------------------------
(* The loop over userGenres and rawBooks, with an exclusion set: the raw
   candidates of each preferred genre in turn *)

MaxAggregate == 3
AggregateGenres == {1, 2, 3}

AggregateInputs ==
    {[book |-> VolumeToBook(v, sCover), ug |-> GenreRow(g)] :
        v \in {vDune1, vDune2, vDune3, vAnon}, g \in AggregateGenres}

\* the candidates of one genre follow each other: each genre is queried once
GroupedByGenre(inputs) ==
    \A i, j, k \in 1..Len(inputs) :
        (i < j /\ j < k /\ inputs[i].ug = inputs[k].ug) => inputs[j].ug = inputs[i].ug

InitAggregate ==
    /\ SideOff
    /\ MatchOff
    /\ EmptyStore
    /\ pc = "idle"
    /\ userId = 0
    /\ userGenres = <<>>
    /\ pendingReads = {}
    /\ toReadLite = <<>>
    /\ finishedLite = <<>>
    /\ seen = {}
    /\ excludeGoogleIds \in {{}, {idV2}}
    /\ weights = WeightsNoFinished
    /\ candidateMap = <<>>
    /\ counters = NoCounters
    /\ genreIdx = 0
    /\ existingGenreIdsByGoogleId = <<>>
    /\ scored = <<>>
    /\ persistIdx = 0
    /\ status = 0
    /\ body = NoBody
    /\ mgInputs \in {inputs \in SeqsUpTo(AggregateInputs, MaxAggregate) :
                        GroupedByGenre(inputs)}
    /\ mgStep = 0
    /\ mgPrev = <<>>

NextAggregate == MergeNext

SpecAggregate == InitAggregate /\ [][NextAggregate]_vars

\* the candidates processed so far that were not skipped
Admitted == {i \in 1..mgStep :
                /\ mgInputs[i].book.googleBooksId # <<>>
                /\ mgInputs[i].book.googleBooksId \notin excludeGoogleIds}

\* the genres under whose query an admitted candidate with the key was fetched
GenresFetchedFor(key) ==
    {mgInputs[i].ug.id : i \in {a \in Admitted : normalizedCandidateKey(mgInputs[a].book) = key}}

\* C24: after any sequence of fetched candidates over any number of preferred
\* genres, the record kept for each canonical key has as source genre ids
\* exactly the genres under whose query a non-excluded candidate with that key
\* was fetched, however often and in whichever direction the record was replaced
C24_SourceGenresOfKey ==
    /\ \A p \in 1..Len(candidateMap) :
          Range(candidateMap[p][2].sourceGenreIds) = GenresFetchedFor(candidateMap[p][1])
    /\ \A a \in Admitted : MapHas(candidateMap, normalizedCandidateKey(mgInputs[a].book))

\* three candidates of one key from three genres: the second replaced the
\* first, the third did not replace the second, and the record has the three genres
C24_Witness ==
    /\ mgStep = MaxAggregate
    /\ Admitted = 1..MaxAggregate
    /\ Len(candidateMap) = 1
    /\ shouldReplace(mgInputs[1].book, mgInputs[2].book)
    /\ ~shouldReplace(mgInputs[2].book, mgInputs[3].book)
    /\ Cardinality(Range(candidateMap[1][2].sourceGenreIds)) = 3

\* a candidate of the key was skipped as excluded and its genre is not in the record
C24_WitnessExcluded ==
    /\ mgStep = MaxAggregate
    /\ Len(candidateMap) = 1
    /\ \E i \in 1..mgStep :
          /\ mgInputs[i].book.googleBooksId \in excludeGoogleIds
          /\ mgInputs[i].ug.id \notin Range(candidateMap[1][2].sourceGenreIds)
          /\ normalizedCandidateKey(mgInputs[i].book) = candidateMap[1][1]

----------------------------------------------------------------------------
(* maxSimilarityToShelfDetailed alone: one call on a candidate's tokens and
   the token sets of a shelf *)

\* the most books on the shelf
MaxShelf == 3

InitMaxSim ==
    /\ MatchOff
    /\ MergeOff
    /\ EmptyStore
    /\ NoRequest
    /\ SimOff
    /\ SelOff
    /\ LimitersIdle
    /\ FetchOff
    /\ PersistOff
    /\ SearchOff
    /\ RoundRobinOff
    /\ ShelvesOff
    /\ DeriveOff
    /\ NoPrevious
    /\ msPc = "input"
    /\ msCandidateTokens \in SUBSET TokenPool
    /\ msShelfTokenSets \in SeqsUpTo(SUBSET TokenPool, MaxShelf)
    /\ msDetail = [score |-> Zero, matchedIndex |-> -1]

MaxSimilarity ==
    /\ msPc = "input"
    /\ msPc' = "done"
    /\ msDetail' = maxSimilarityToShelfDetailed(msCandidateTokens, msShelfTokenSets)
    /\ UNCHANGED <<matchVars, mergeVars, storeVars, reqVars, simVars, selVars, limVars,
                   fbVars, psVars, srVars, rrVars, shVars, dvVars, twVars,
                   msCandidateTokens, msShelfTokenSets>>

NextMaxSim == MaxSimilarity

SpecMaxSim == InitMaxSim /\ [][NextMaxSim]_vars

\* |a /\ b| / |a \/ b| as a fraction, 0 when either set is empty
JaccardIndex(a, b) ==
    IF a = {} \/ b = {} THEN Zero
    ELSE Rat(Cardinality(a \cap b), Cardinality(a \cup b))

\* the similarity of the candidate to shelf set i (1-based)
SimAt(i) == JaccardIndex(msCandidateTokens, msShelfTokenSets[i])

\* the largest similarity to a shelf set, 0 for an empty shelf
MaxSimAt ==
    IF msShelfTokenSets = <<>> THEN Zero
    ELSE SimAt(CHOOSE i \in 1..Len(msShelfTokenSets) :
                   \A j \in 1..Len(msShelfTokenSets) : ~RatLess(SimAt(i), SimAt(j)))

\* the 0-based index of the first shelf set with the largest similarity
FirstMaxIndex ==
    (CHOOSE i \in 1..Len(msShelfTokenSets) :
        /\ RatEq(SimAt(i), MaxSimAt)
        /\ \A j \in 1..(i - 1) : ~RatEq(SimAt(j), MaxSimAt)) - 1

\* C27 as stated: the score is the largest similarity to a shelf set and, for
\* every non-empty shelf, matchedIndex is the index of the first set that
\* attains it
C27_AsStated ==
    msPc = "done" =>
        /\ RatEq(msDetail.score, MaxSimAt)
        /\ msShelfTokenSets # <<>> => msDetail.matchedIndex = FirstMaxIndex

\* C27: the score is the largest Jaccard similarity to a shelf set (0 for an
\* empty shelf); matchedIndex is the index of the first shelf set that attains
\* it when it is greater than 0, and -1 when it is 0
C27_MaxAndFirstIndex ==
    msPc = "done" =>
        /\ RatEq(msDetail.score, MaxSimAt)
        /\ msDetail.matchedIndex =
              IF RatLess(Zero, MaxSimAt) THEN FirstMaxIndex ELSE -1

\* the largest similarity is attained by the second and the third shelf set
\* and not by the first, which has some similarity too
C27_Witness ==
    /\ msPc = "done"
    /\ Len(msShelfTokenSets) = MaxShelf
    /\ RatLess(Zero, SimAt(1))
    /\ RatLess(SimAt(1), SimAt(2))
    /\ RatEq(SimAt(2), SimAt(MaxShelf))
    /\ msDetail.matchedIndex = 1

\* a shelf with books none of which shares a token with the candidate
C27_WitnessNoOverlap ==
    /\ msPc = "done"
    /\ msShelfTokenSets # <<>>
    /\ msCandidateTokens # {}
    /\ \A i \in 1..Len(msShelfTokenSets) : msShelfTokenSets[i] # {}
    /\ msDetail.matchedIndex = -1

----------------------------------------------------------------------------
(* deriveGenreIdsFromCategories of recommendations.ts and
   matchGenresFromCategories of genreMatch.ts on the same arguments *)

InitDerive ==
    /\ MatchOff
    /\ MergeOff
    /\ EmptyStore
    /\ NoRequest
    /\ SimOff
    /\ SelOff
    /\ LimitersIdle
    /\ FetchOff
    /\ PersistOff
    /\ SearchOff
    /\ RoundRobinOff
    /\ ShelvesOff
    /\ MaxSimOff
    /\ NoPrevious
    /\ dvPc = "input"
    /\ dvCategories \in SeqsUpTo(CategoryPool, MaxCategories)
    /\ dvGenres \in Taxonomies
    /\ dvDerived = {}
    /\ dvMatched = <<>>

\* the recommendation route and search infer the genres of the same categories
DeriveAndMatch ==
    /\ dvPc = "input"
    /\ dvPc' = "done"
    /\ dvDerived' = deriveGenreIdsFromCategories(dvCategories, dvGenres)
    /\ dvMatched' = matchGenresFromCategories(dvCategories, dvGenres)
    /\ UNCHANGED <<matchVars, mergeVars, storeVars, reqVars, simVars, selVars, limVars,
                   fbVars, psVars, srVars, rrVars, shVars, msVars, twVars,
                   dvCategories, dvGenres>>

NextDerive == DeriveAndMatch

SpecDerive == InitDerive /\ [][NextDerive]_vars

\* C28: for every category list and every taxonomy with distinct genre ids,
\* deriveGenreIdsFromCategories returns exactly the ids of the genres
\* matchGenresFromCategories returns
C28_SameGenres ==
    dvPc = "done" => dvDerived = {dvMatched[i].id : i \in 1..Len(dvMatched)}

\* both return a genre, and a matched genre was pruned
C28_Witness ==
    /\ dvPc = "done"
    /\ dvDerived # {}
    /\ Len(dvMatched) < Len(RawMatched(dvCategories, dvGenres))
    /\ Len(dvGenres) = MaxGenres

----------------------------------------------------------------------------
(* Two requests GET /fetch/:userId of one user, one after the other, with
   nothing but the persistence of the first between them *)

TwiceCatalogue == {vDune2, vAnon}
\* the preferred genres of the user: one, or two
TwicePreferred == {<<1>>, <<2>>}

InitTwice ==
    /\ SideOff
    /\ MatchOff
    /\ MergeOff
    /\ upstream = TwiceCatalogue
    /\ userGenreRows \in TwicePreferred
    /\ \E store \in Stores :
          /\ shelfBooks = store.shelfBooks
          /\ userBooks = store.userBooks
          /\ bookIds = store.bookIds
          /\ bookGenres = store.bookGenres
    /\ NoRequest

\* the second request of the same user arrives after the response to the
\* first; what the first computed is kept for comparison
StartSecond ==
    /\ pc = "sent"
    /\ previous = NoRecord
    /\ previous' = [kind |-> "answered", status |-> status, candidateMap |-> candidateMap,
                    counters |-> counters,
                    existingGenreIdsByGoogleId |-> existingGenreIdsByGoogleId,
                    scored |-> scored]
    /\ \E param \in UserIdParams :
          /\ parseInt(param) = userId
          /\ IF parseInt(param) = NaN \/ parseInt(param) = 0
             THEN /\ pc' = "sent"
                  /\ status' = 400
                  /\ body' = [kind |-> "error", error |-> "Invalid userId"]
             ELSE /\ pc' = "genres"
                  /\ status' = 0
                  /\ body' = NoBody
    /\ userId' = userId
    /\ FreshLocals
    /\ UNCHANGED <<matchVars, mergeVars, storeVars, simVars, selVars, limVars, fbVars,
                   psVars, srVars, rrVars, shVars, msVars, dvVars>>

NextTwice ==
    \/ Start
    \/ StartSecond
    \/ ReadUserGenres
    \/ ReadToRead
    \/ ReadFinished
    \/ ReadSeen
    \/ FetchGenre
    \/ FetchFails
    \/ ScoreCandidates
    \/ PersistNext

SpecTwice == InitTwice /\ [][NextTwice]_vars

\* the second request has scored the candidates the first one scored: the
\* fetches returned the same books, and shelves, seen set and preferred
\* genres are those of the first request
ScoredAgain ==
    /\ previous # NoRecord
    /\ previous.status = 200
    /\ JustScored
    /\ candidateMap = previous.candidateMap
    /\ counters = previous.counters

\* the record the first request computed for the candidate
ScoredBefore(id) ==
    previous.scored[CHOOSE j \in 1..Len(previous.scored) :
                        previous.scored[j].candidate.googleBooksId = id]

SameGenreScoring(r) ==
    /\ \E j \in 1..Len(previous.scored) :
          previous.scored[j].candidate = r.candidate
    /\ Range(r.genreIds) = Range(ScoredBefore(r.candidate.googleBooksId).genreIds)
    /\ RatEq(r.genreScore, ScoredBefore(r.candidate.googleBooksId).genreScore)

\* the genres the store held for the book when the first request scored it
StoredBefore(id) == dbGenreIdsOf(id, previous.existingGenreIdsByGoogleId)

\* C29 as stated: the second of two consecutive requests with the same
\* candidates, shelves, seen set and preferred genres gives every candidate
\* the effective genre set and the genreScore the first one gave it
C29_AsStated ==
    ScoredAgain => \A i \in 1..Len(scored) : SameGenreScoring(scored[i])

\* C29: the second request gives the same effective genre set and genreScore
\* to every candidate for which the store, before the first request, held no
\* genre or held all its source and inferred genres
C29_SameUnlessStoredLack ==
    ScoredAgain =>
        \A i \in 1..Len(scored) :
            (\/ StoredBefore(scored[i].candidate.googleBooksId) = {}
             \/ Range(scored[i].candidate.sourceGenreIds)
                    \cup InferredFrom(scored[i].candidate.categories)
                  \subseteq StoredBefore(scored[i].candidate.googleBooksId))
                => SameGenreScoring(scored[i])

\* a candidate had no stored genre before the first request, the first request
\* stored its source genre and a genre inferred from its categories, and the
\* second request has scored it from the stored ones
C29_Witness ==
    /\ ScoredAgain
    /\ \E i \in 1..Len(scored) :
          /\ StoredBefore(scored[i].candidate.googleBooksId) = {}
          /\ dbGenreIdsOf(scored[i].candidate.googleBooksId, existingGenreIdsByGoogleId) # {}
          /\ ~(InferredFrom(scored[i].candidate.categories)
                  \subseteq Range(scored[i].candidate.sourceGenreIds))

\* a candidate had stored genres that lacked its source genre, and its
\* genreScore is not the one of the first request
C29_WitnessDrift ==
    /\ ScoredAgain
    /\ \E i \in 1..Len(scored) :
          /\ StoredBefore(scored[i].candidate.googleBooksId) # {}
          /\ ~RatEq(scored[i].genreScore,
                    ScoredBefore(scored[i].candidate.googleBooksId).genreScore)

====
